---- MODULE Spec2Model ----
(***************************************************************************)
(* The skill registry engine (src/src/core/core.ts) over its storage       *)
(* backends (src/src/storage), with the frontmatter parser                 *)
(* (src/src/core/frontmatter.ts) and the zod schemas                       *)
(* (src/src/types/index.ts).                                               *)
(*                                                                         *)
(* Strings are sequences of one-character strings, so that the code's      *)
(* string operations (startsWith, indexOf, slice, trim, split, the         *)
(* regular expressions) are computed and not assumed.                      *)
(***************************************************************************)
EXTENDS Integers, Sequences, FiniteSets, TLC

\* ------------------------------------------------------------------------
\* Characters and string helpers (JavaScript semantics)
\* ------------------------------------------------------------------------

LowerChars ==
    {"a","b","c","d","e","f","g","h","i","j","k","l","m",
     "n","o","p","q","r","s","t","u","v","w","x","y","z"}

UpperChars ==
    {"A","B","C","D","E","F","G","H","I","J","K","L","M",
     "N","O","P","Q","R","S","T","U","V","W","X","Y","Z"}

DigitChars == {"0","1","2","3","4","5","6","7","8","9"}

\* \s of the regular expressions and the set String.prototype.trim removes
SpaceChars == {" ", "\t", "\n", "\r"}

\* the characters "." of a regular expression does not match
LineTerminators == {"\n", "\r"}

\* [a-zA-Z0-9_-]
KeyChars == LowerChars \cup UpperChars \cup DigitChars \cup {"_", "-"}

\* [a-z0-9]
LowerAlnum == LowerChars \cup DigitChars

\* [a-zA-Z0-9]
Alnum == LowerChars \cup UpperChars \cup DigitChars

SetMin(S) == CHOOSE x \in S : \A y \in S : x <= y

SetMax(S) == CHOOSE x \in S : \A y \in S : y <= x

\* The helpers below pass every computed value on as a parameter, so that
\* no definition is expanded more than once where it is used.

\* s.slice(from, to) for 0 <= from, 0 <= to
Slice(s, from, to) ==
    IF to > Len(s)
    THEN (IF from >= Len(s) THEN <<>> ELSE SubSeq(s, from + 1, Len(s)))
    ELSE (IF from >= to THEN <<>> ELSE SubSeq(s, from + 1, to))

\* s.slice(from)
SliceFrom(s, from) == IF from >= Len(s) THEN <<>> ELSE SubSeq(s, from + 1, Len(s))

\* s.startsWith(p)
StartsWith(s, p) == Len(s) >= Len(p) /\ SubSeq(s, 1, Len(p)) = p

\* s.endsWith(p)
EndsWith(s, p) ==
    Len(s) >= Len(p) /\ SubSeq(s, Len(s) - Len(p) + 1, Len(s)) = p

\* the least element of a set of indexes, or -1
FirstOrMinusOne(at) == IF at = {} THEN -1 ELSE SetMin(at)

\* s.indexOf(p, from): the 0-based index of the first occurrence, or -1
IndexOf(s, p, from) ==
    FirstOrMinusOne(
      {i \in from..(Len(s) - Len(p)) : SubSeq(s, i + 1, i + Len(p)) = p})

\* s.includes(c) for a single character c
Includes(s, c) == \E i \in 1..Len(s) : s[i] = c

TrimTo(s, keep) ==
    IF keep = {} THEN <<>> ELSE SubSeq(s, SetMin(keep), SetMax(keep))

\* s.trim()
Trim(s) == TrimTo(s, {i \in 1..Len(s) : s[i] \notin SpaceChars})

\* s.split(c) for a single character c
RECURSIVE Split(_, _)
SplitAt(s, c, i) ==
    IF i = -1 THEN <<s>>
    ELSE <<SubSeq(s, 1, i - 1)>> \o Split(SubSeq(s, i + 1, Len(s)), c)

Split(s, c) == SplitAt(s, c, FirstOrMinusOne({i \in 1..Len(s) : s[i] = c}))

RunUpTo(s, from, stop) ==
    IF stop = -1 THEN Len(s) - from ELSE stop - 1 - from

\* the length of the longest run of characters of cls in s from position
\* from + 1 on (a greedy [cls]* of a regular expression)
RunLength(s, from, cls) ==
    RunUpTo(s, from,
            FirstOrMinusOne({i \in (from + 1)..Len(s) : s[i] \notin cls}))

\* an object as a map from keys to values; assignment obj[k] = v
MapPut(m, k, v) == [x \in (DOMAIN m) \cup {k} |-> IF x = k THEN v ELSE m[x]]

EmptyMap == <<>>

\* ------------------------------------------------------------------------
\* Frontmatter parser (src/src/core/frontmatter.ts)
\* ------------------------------------------------------------------------

\* a parsed value: a string, or a nested object of strings
StrVal(s) == [kind |-> "str", str |-> s, obj |-> EmptyMap]

ObjVal(o) == [kind |-> "obj", str |-> <<>>, obj |-> o]

\* unquote(value)
unquote(value) ==
    IF \/ (Len(value) >= 1 /\ value[1] = "\"" /\ value[Len(value)] = "\"")
       \/ (Len(value) >= 1 /\ value[1] = "'" /\ value[Len(value)] = "'")
    THEN Slice(value, 1, Len(value) - 1)
    ELSE value

NoMatch == [matched |-> FALSE, key |-> <<>>, value |-> <<>>]

\* ":", then \s*, then (.*)$ : the rest of the line, which "." must match
MatchValue(key, rest) ==
    IF \A i \in 1..Len(rest) : rest[i] \notin LineTerminators
    THEN [matched |-> TRUE, key |-> key, value |-> rest]
    ELSE NoMatch

\* ([a-zA-Z0-9_-]+) of k characters after skip characters, then the colon
MatchColon(line, skip, k) ==
    IF k >= 1 /\ skip + k + 1 <= Len(line) /\ line[skip + k + 1] = ":"
    THEN MatchValue(SubSeq(line, skip + 1, skip + k),
                    SliceFrom(line, skip + k + 1
                                      + RunLength(line, skip + k + 1, SpaceChars)))
    ELSE NoMatch

\* /([a-zA-Z0-9_-]+):\s*(.*)$/ after skip leading characters:
\* [matched, key |-> match[1], value |-> match[2]]
MatchKeyValue(line, skip) ==
    MatchColon(line, skip, RunLength(line, skip, KeyChars))

\* line.match(/^([a-zA-Z0-9_-]+):\s*(.*)$/)
TopLevelMatch(line) == MatchKeyValue(line, 0)

NestedMatchAfter(line, lead) ==
    IF lead >= 1 THEN MatchKeyValue(line, lead) ELSE NoMatch

\* line.match(/^\s+([a-zA-Z0-9_-]+):\s*(.*)$/)
NestedMatch(line) == NestedMatchAfter(line, RunLength(line, 0, SpaceChars))

\* the parser's loop state; currentKey = <<>> and currentObject.null stand
\* for the code's null
YamlStart ==
    [result |-> EmptyMap, currentKey |-> <<>>,
     currentObject |-> [null |-> TRUE, map |-> EmptyMap], failed |-> FALSE]

\* "Save any pending nested object": result after the save
SavePending(st) ==
    IF st.currentKey # <<>> /\ ~st.currentObject.null
    THEN MapPut(st.result, st.currentKey, ObjVal(st.currentObject.map))
    ELSE st.result

\* a line indented under a key, with m its nested match
YamlNested(st, m) ==
    IF m.matched
    THEN [st EXCEPT !.currentObject =
            [null |-> FALSE,
             map  |-> MapPut(st.currentObject.map, m.key, unquote(Trim(m.value)))]]
    ELSE st

\* a top-level line with match m and value = match[2].trim(); saved is the
\* result after the pending object was saved
YamlTopLevel(st, saved, m, value) ==
    IF ~m.matched
    THEN [st EXCEPT !.failed = TRUE]
    ELSE IF value = <<>>
    THEN [result |-> saved, currentKey |-> m.key,
          currentObject |-> [null |-> FALSE, map |-> EmptyMap],
          failed |-> FALSE]
    ELSE [result |-> MapPut(saved, m.key, StrVal(unquote(value))),
          currentKey |-> m.key,
          currentObject |-> [null |-> TRUE, map |-> EmptyMap],
          failed |-> FALSE]

YamlTop(st, m) == YamlTopLevel(st, SavePending(st), m, Trim(m.value))

\* one iteration of the for loop of parseSimpleYaml
YamlStep(st, line, blank) ==
    IF st.failed \/ blank THEN st
    ELSE IF Len(line) >= 2 /\ line[1] = " " /\ line[2] = " "
            /\ st.currentKey # <<>>
    THEN YamlNested(st, NestedMatch(line))
    ELSE YamlTop(st, TopLevelMatch(line))

RECURSIVE YamlLoop(_, _)
YamlLoop(st, lines) ==
    IF lines = <<>> THEN st
    ELSE YamlLoop(YamlStep(st, Head(lines),
                           \A i \in 1..Len(Head(lines)) :
                              Head(lines)[i] \in SpaceChars),
                  Tail(lines))

YamlResult(st, value) ==
    IF st.failed THEN [ok |-> FALSE, value |-> EmptyMap]
    ELSE [ok |-> TRUE, value |-> value]

YamlEnd(st) == YamlResult(st, SavePending(st))

\* parseSimpleYaml(yaml): [ok, value]
parseSimpleYaml(yaml) == YamlEnd(YamlLoop(YamlStart, Split(yaml, "\n")))

\* ------------------------------------------------------------------------
\* Schemas (src/src/types/index.ts)
\* ------------------------------------------------------------------------

NameMaxLen == 64

NamespaceMaxLen == 40

DescriptionMaxLen == 1024

ShortFieldMaxLen == 100

\* /^[a-z0-9]([a-z0-9-]{0,n}[a-z0-9])?$/ with n = max - 2, plus min(1), max(max)
MatchesIdentifier(s, max) ==
    /\ Len(s) >= 1
    /\ Len(s) <= max
    /\ \A i \in 1..Len(s) : s[i] \in LowerAlnum \cup {"-"}
    /\ s[1] \in LowerAlnum
    /\ s[Len(s)] \in LowerAlnum

\* namespaceSchema
namespaceSchema(s) == MatchesIdentifier(s, NamespaceMaxLen)

\* skillNameSchema
skillNameSchema(s) == MatchesIdentifier(s, NameMaxLen)

\* frontmatterNameSchema: /^[a-z0-9]+(-[a-z0-9]+)*$/, min(1), max(64)
frontmatterNameSchema(s) ==
    /\ Len(s) >= 1
    /\ Len(s) <= NameMaxLen
    /\ \A i \in 1..Len(s) : s[i] \in LowerAlnum \cup {"-"}
    /\ s[1] \in LowerAlnum
    /\ s[Len(s)] \in LowerAlnum
    /\ \A i \in 1..(Len(s) - 1) : ~(s[i] = "-" /\ s[i + 1] = "-")

\* frontmatterDescriptionSchema
frontmatterDescriptionSchema(s) == Len(s) >= 1 /\ Len(s) <= DescriptionMaxLen

K_name == <<"n","a","m","e">>

K_description == <<"d","e","s","c","r","i","p","t","i","o","n">>

K_license == <<"l","i","c","e","n","s","e">>

K_compatibility == <<"c","o","m","p","a","t","i","b","i","l","i","t","y">>

K_metadata == <<"m","e","t","a","d","a","t","a">>

\* an optional z.string().max(100) field of the object
OptionalShortString(obj, k) ==
    k \in DOMAIN obj => (obj[k].kind = "str" /\ Len(obj[k].str) <= ShortFieldMaxLen)

\* skillFrontmatterSchema.safeParse(obj).success
skillFrontmatterSchema(obj) ==
    /\ K_name \in DOMAIN obj
    /\ obj[K_name].kind = "str"
    /\ frontmatterNameSchema(obj[K_name].str)
    /\ K_description \in DOMAIN obj
    /\ obj[K_description].kind = "str"
    /\ frontmatterDescriptionSchema(obj[K_description].str)
    /\ OptionalShortString(obj, K_license)
    /\ OptionalShortString(obj, K_compatibility)
    /\ (K_metadata \in DOMAIN obj => obj[K_metadata].kind = "obj")

\* validated.data: the object with the unknown keys stripped
FrontmatterData(obj) ==
    [k \in (DOMAIN obj) \cap
           {K_name, K_description, K_license, K_compatibility, K_metadata}
       |-> obj[k]]

FM_DELIM == <<"-","-","-">>

FM_ENDMARK == <<"\n","-","-","-">>

FrontmatterError(code) == [ok |-> FALSE, code |-> code, frontmatter |-> EmptyMap]

\* the schema validation of the parsed header
ValidateFrontmatter(parsed) ==
    IF ~parsed.ok THEN FrontmatterError("INVALID_YAML")
    ELSE IF ~skillFrontmatterSchema(parsed.value)
    THEN FrontmatterError("INVALID_FRONTMATTER")
    ELSE [ok |-> TRUE, code |-> "OK", frontmatter |-> FrontmatterData(parsed.value)]

\* parseFrontmatter after the search for the closing delimiter
ParseHeader(content, endIndex) ==
    IF endIndex = -1 THEN FrontmatterError("MISSING_FRONTMATTER")
    ELSE ValidateFrontmatter(parseSimpleYaml(Trim(Slice(content, 4, endIndex))))

\* parseFrontmatter(content): [ok, code, frontmatter]
parseFrontmatter(content) ==
    IF ~StartsWith(content, FM_DELIM)
    THEN FrontmatterError("MISSING_FRONTMATTER")
    ELSE ParseHeader(content, IndexOf(content, FM_ENDMARK, 3))

\* ------------------------------------------------------------------------
\* Content texts
\* ------------------------------------------------------------------------

\* The UTF-8 width of one code point, as TextEncoder.encode produces it; a
\* code point outside ASCII is written as one token
Utf8Width(c) ==
    CASE c = "U+00E9"  -> 2
      [] c = "U+20AC"  -> 3
      [] c = "U+1F600" -> 4
      [] OTHER         -> 1

RECURSIVE SumWidths(_)
SumWidths(s) == IF s = <<>> THEN 0 ELSE Utf8Width(Head(s)) + SumWidths(Tail(s))

\* A content text is its leading characters (head) followed by fillN copies
\* of the code point fillCp, which is neither a newline nor a hyphen, so the
\* parser's search for the closing delimiter is decided by head alone.
\* new TextEncoder().encode(content).length
ByteLength(text) == SumWidths(text.head) + text.fillN * Utf8Width(text.fillCp)

YamlLine(k, v) == k \o <<":", " ">> \o v \o <<"\n">>

\* a skill document as makeSkillContent(name, body) of test/helpers.ts lays
\* it out, with the two required fields
makeSkillContent(name, body) ==
    FM_DELIM \o <<"\n">> \o YamlLine(K_name, name)
             \o YamlLine(K_description, <<"d">>)
             \o FM_DELIM \o <<"\n", "\n">> \o body

NameX == <<"x">>

NameY == <<"y">>

\* makeCore's default of maxSkillBytes
DefaultMaxSkillBytes == 262144

\* The contents the callers publish: two valid documents for skill x that
\* differ in their body, a valid one for skill y, one without frontmatter,
\* and three over the default size ceiling: a valid one for skill x, a
\* valid one for skill y and one without frontmatter.
Contents ==
    {"x-one", "x-two", "y-one", "plain", "x-huge", "y-huge", "plain-huge"}

\* the filler that takes a short text over the default ceiling
HugeFill == (DefaultMaxSkillBytes \div 2) - 12

\* a skill document with more lines in its header block
makeHeaderContent(name, lines) ==
    FM_DELIM \o <<"\n">> \o YamlLine(K_name, name)
             \o YamlLine(K_description, <<"d">>)
             \o lines
             \o FM_DELIM \o <<"\n", "\n", "1">>

\* a-b and a--b: skillNameSchema accepts both
NameD == <<"a", "-", "b">>

NameDD == <<"a", "-", "-", "b">>

\* Documents for skill x with a further header line: the text oops, not
\* indented, indented by one space and indented by two; a nested metadata
\* object; a nested metadata object followed by the indented text. And the
\* documents makeSkillContent gives for the skills a-b and a--b.
HeaderContents ==
    {"x-text", "x-space-text", "x-indented-text", "x-nested", "x-nested-text",
     "d-one", "dd-one"}

\* Valid documents for skill x at the default size ceiling and one byte
\* over it: filled with one-byte characters, and filled with two-byte and
\* three-byte code points, which have fewer characters than bytes.
BoundaryContents == {"x-exact", "x-over", "x-exact-wide", "x-over-wide"}

\* the one-byte filler that takes the empty document for skill x, which is
\* all ASCII, to the default ceiling
ExactFill == DefaultMaxSkillBytes - Len(makeSkillContent(NameX, <<>>))

ContentText(c) ==
    CASE c = "x-one"  -> [head |-> makeSkillContent(NameX, <<"1">>),
                          fillCp |-> "z", fillN |-> 0]
      [] c = "x-two"  -> [head |-> makeSkillContent(NameX, <<"2">>),
                          fillCp |-> "z", fillN |-> 0]
      [] c = "y-one"  -> [head |-> makeSkillContent(NameY, <<"1">>),
                          fillCp |-> "z", fillN |-> 0]
      [] c = "plain"  -> [head |-> <<"#", " ", "t">>,
                          fillCp |-> "z", fillN |-> 0]
      [] c = "x-huge" -> [head |-> makeSkillContent(NameX, <<>>),
                          fillCp |-> "U+00E9", fillN |-> HugeFill]
      [] c = "y-huge" -> [head |-> makeSkillContent(NameY, <<>>),
                          fillCp |-> "U+00E9", fillN |-> HugeFill]
      [] c = "plain-huge" -> [head |-> <<"#", " ", "t">>,
                              fillCp |-> "U+00E9", fillN |-> HugeFill + 12]
      [] c = "x-exact" -> [head |-> makeSkillContent(NameX, <<>>),
                           fillCp |-> "z", fillN |-> ExactFill]
      [] c = "x-over"  -> [head |-> makeSkillContent(NameX, <<>>),
                           fillCp |-> "z", fillN |-> ExactFill + 1]
      [] c = "x-exact-wide" -> [head |-> makeSkillContent(NameX, <<>>),
                                fillCp |-> "U+00E9",
                                fillN |-> ExactFill \div 2]
      [] c = "x-over-wide"  -> [head |-> makeSkillContent(NameX, <<>>),
                                fillCp |-> "U+20AC",
                                fillN |-> (ExactFill + 1) \div 3]

      [] c = "x-text" ->
           [head |-> makeHeaderContent(NameX, <<"o", "o", "p", "s", "\n">>),
            fillCp |-> "z", fillN |-> 0]
      [] c = "x-space-text" ->
           [head |-> makeHeaderContent(NameX, <<" ", "o", "o", "p", "s", "\n">>),
            fillCp |-> "z", fillN |-> 0]
      [] c = "x-indented-text" ->
           [head |-> makeHeaderContent(
                       NameX, <<" ", " ", "o", "o", "p", "s", "\n">>),
            fillCp |-> "z", fillN |-> 0]
      [] c = "x-nested" ->
           [head |-> makeHeaderContent(
                       NameX, YamlLine(K_metadata, <<>>)
                              \o <<" ", " ">> \o YamlLine(<<"k">>, <<"v">>)),
            fillCp |-> "z", fillN |-> 0]
      [] c = "x-nested-text" ->
           [head |-> makeHeaderContent(
                       NameX, YamlLine(K_metadata, <<>>)
                              \o <<" ", " ">> \o YamlLine(<<"k">>, <<"v">>)
                              \o <<" ", " ", "o", "o", "p", "s", "\n">>),
            fillCp |-> "z", fillN |-> 0]
      [] c = "d-one"  -> [head |-> makeSkillContent(NameD, <<"1">>),
                          fillCp |-> "z", fillN |-> 0]
      [] c = "dd-one" -> [head |-> makeSkillContent(NameDD, <<"1">>),
                          fillCp |-> "z", fillN |-> 0]

\* computed once per content: the size and the parse of each text
ContentBytes ==
    [c \in Contents \cup BoundaryContents \cup HeaderContents |->
       ByteLength(ContentText(c))]

ContentFrontmatter ==
    [c \in Contents \cup BoundaryContents \cup HeaderContents |->
       parseFrontmatter(ContentText(c).head)]

\* computeChecksum(content): SHA-256 taken as collision free
computeChecksum(c) == <<"sha256", c>>

\* ------------------------------------------------------------------------
\* Versions and latest resolution (src/src/core/core.ts)
\* ------------------------------------------------------------------------

Null == <<"null">>

Undefined == <<"undefined">>

NaN == [nan |-> TRUE, v |-> 0]

Num(n) == [nan |-> FALSE, v |-> n]

DigitValue(c) ==
    CASE c = "0" -> 0 [] c = "1" -> 1 [] c = "2" -> 2 [] c = "3" -> 3
      [] c = "4" -> 4 [] c = "5" -> 5 [] c = "6" -> 6 [] c = "7" -> 7
      [] c = "8" -> 8 [] c = "9" -> 9

RECURSIVE DecimalValue(_)
DecimalValue(s) ==
    IF s = <<>> THEN 0
    ELSE 10 * DecimalValue(SubSeq(s, 1, Len(s) - 1)) + DigitValue(s[Len(s)])

\* Number(s) for the strings split(".") yields: "" is 0, digits their
\* value, anything else NaN
Number(s) ==
    IF \A i \in 1..Len(s) : s[i] \in DigitChars THEN Num(DecimalValue(s)) ELSE NaN

\* parts[i] ?? 0
PartOrZero(parts, i) == IF i <= Len(parts) THEN Number(parts[i]) ELSE Num(0)

MajorMinorPatch(parts) ==
    <<PartOrZero(parts, 1), PartOrZero(parts, 2), PartOrZero(parts, 3)>>

\* a.split("-")[0].split(".").map(Number), then [major, minor, patch]
VersionTriple(a) == MajorMinorPatch(Split(Split(a, "-")[1], "."))

\* a !== b on numbers
NumNe(a, b) == a.nan \/ b.nan \/ a.v # b.v

\* b - a as a comparator result: NaN sorts as 0
NumDiff(b, a) == IF a.nan \/ b.nan THEN 0 ELSE b.v - a.v

CompareTriples(ta, tb) ==
    IF NumNe(ta[1], tb[1]) THEN NumDiff(tb[1], ta[1])
    ELSE IF NumNe(ta[2], tb[2]) THEN NumDiff(tb[2], ta[2])
    ELSE NumDiff(tb[3], ta[3])

\* the comparator of resolveLatestVersion: negative puts a first
CompareDesc(a, b) == CompareTriples(VersionTriple(a), VersionTriple(b))

\* insert v into the sorted sequence s after every element that does not
\* sort after it (a stable insertion)
RECURSIVE InsertSorted(_, _)
InsertSorted(s, v) ==
    IF s = <<>> THEN <<v>>
    ELSE IF CompareDesc(Head(s), v) > 0 THEN <<v>> \o s
    ELSE <<Head(s)>> \o InsertSorted(Tail(s), v)

\* [...versions].sort(comparator): Array.prototype.sort is stable
RECURSIVE SortDesc(_)
SortDesc(s) ==
    IF s = <<>> THEN <<>>
    ELSE InsertSorted(SortDesc(SubSeq(s, 1, Len(s) - 1)), s[Len(s)])

\* versions.filter(pred) with pred(v) = !v.includes("-")
RECURSIVE FilterStable(_)
FilterStable(s) ==
    IF s = <<>> THEN <<>>
    ELSE IF ~Includes(Head(s), "-") THEN <<Head(s)>> \o FilterStable(Tail(s))
    ELSE FilterStable(Tail(s))

\* a faulty choice: the first of all versions, stable or not
FirstOfSorted_IgnoringStability(stableVersions, versions) ==
    SortDesc(versions)[1]

\* sorted[0] of the stable versions, or of all versions without a stable one
FirstOfSorted(stableVersions, versions) ==
    IF Len(stableVersions) > 0 THEN SortDesc(stableVersions)[1]
    ELSE SortDesc(versions)[1]

\* a faulty resolution: null without a stable version
ResolveLatestVersion_StableOnly(versions) ==
    IF Len(FilterStable(versions)) = 0 THEN Null
    ELSE SortDesc(FilterStable(versions))[1]

\* resolveLatestVersion(versions)
resolveLatestVersion(versions) ==
    IF Len(versions) = 0 THEN Null
    ELSE FirstOfSorted(FilterStable(versions), versions)

\* semverSchema:
\* /^(0|[1-9]\d*)\.(0|[1-9]\d*)\.(0|[1-9]\d*)(-[a-zA-Z0-9]+(\.[a-zA-Z0-9]+)*)?$/
NumericIdentifier(s) ==
    /\ Len(s) >= 1
    /\ \A i \in 1..Len(s) : s[i] \in DigitChars
    /\ (Len(s) > 1 => s[1] # "0")

AlnumIdentifier(s) == Len(s) >= 1 /\ \A i \in 1..Len(s) : s[i] \in Alnum

SemverParts(nums, tags) ==
    /\ Len(nums) = 3
    /\ \A i \in 1..3 : NumericIdentifier(nums[i])
    /\ \A i \in 1..Len(tags) : AlnumIdentifier(tags[i])

\* the version cut at its first hyphen, at index dash, or not at all
SemverAt(v, dash) ==
    IF dash = -1 THEN SemverParts(Split(v, "."), <<>>)
    ELSE SemverParts(Split(Slice(v, 0, dash), "."),
                     Split(SliceFrom(v, dash + 1), "."))

semverSchema(v) == SemverAt(v, IndexOf(v, <<"-">>, 0))

\* ------------------------------------------------------------------------
\* Storage keys (Keys of src/src/core/core.ts)
\* ------------------------------------------------------------------------

S_skills == <<"s","k","i","l","l","s","/">>

S_metadata == <<"/","m","e","t","a","d","a","t","a",".","j","s","o","n">>

S_versions == <<"/","v","e","r","s","i","o","n","s","/">>

S_md == <<".","m","d">>

S_user == <<"/","u","s","e","r",".","j","s","o","n">>

\* a faulty key: one metadata key for all the skills of a namespace
Keys_metadata_WithoutName(namespace, name) == S_skills \o namespace \o S_metadata

\* Keys.metadata: `skills/${namespace}/${name}/metadata.json`
Keys_metadata(namespace, name) ==
    S_skills \o namespace \o <<"/">> \o name \o S_metadata

\* Keys.version: `skills/${namespace}/${name}/versions/${version}.md`
Keys_version(namespace, name, version) ==
    S_skills \o namespace \o <<"/">> \o name \o S_versions \o version \o S_md

\* Keys.userProfile: `skills/${namespace}/user.json`
Keys_userProfile(namespace) == S_skills \o namespace \o S_user

\* a faulty prefix: without the slash that ends the namespace
Keys_skillPrefix_NoSlash(namespace) == S_skills \o namespace

\* Keys.skillPrefix: `skills/${namespace}/`
Keys_skillPrefix(namespace) == S_skills \o namespace \o <<"/">>

\* Keys.allSkillsPrefix
Keys_allSkillsPrefix == S_skills

\* ------------------------------------------------------------------------
\* Stored values and the MemoryStorage backend (src/src/storage/index.ts)
\* ------------------------------------------------------------------------

\* a stored string: a content text, or the JSON text of a document
TextValue(c) == [t |-> "text", text |-> c, doc |-> EmptyMap]

JsonValue(d) == [t |-> "json", text |-> "", doc |-> d]

\* the null a get of an absent key returns
NullValue == [t |-> "null", text |-> "", doc |-> EmptyMap]

\* MemoryStorage.get
MemoryStorage_get(data, key) ==
    IF key \in DOMAIN data THEN data[key] ELSE NullValue

\* MemoryStorage.put
MemoryStorage_put(data, key, value) == MapPut(data, key, value)

\* a faulty putIfNotExists: it answers as it should and overwrites the value
\* of a key that holds one
PutIfNotExists_Overwriting(data, key, value) ==
    [stored |-> key \notin DOMAIN data, data |-> MapPut(data, key, value)]

\* a faulty putIfNotExists: it keeps the value of a key that holds one and
\* answers true all the same
PutIfNotExists_AlwaysTrue(data, key, value) ==
    [stored |-> TRUE,
     data |-> IF key \in DOMAIN data THEN data ELSE MapPut(data, key, value)]

\* a faulty putIfNotExists: it answers as it should and stores nothing
PutIfNotExists_Dropping(data, key, value) ==
    [stored |-> key \notin DOMAIN data, data |-> data]

\* MemoryStorage.putIfNotExists: [stored, data]
MemoryStorage_putIfNotExists(data, key, value) ==
    IF key \in DOMAIN data
    THEN [stored |-> FALSE, data |-> data]
    ELSE [stored |-> TRUE, data |-> MapPut(data, key, value)]

\* MemoryStorage.list
MemoryStorage_list(data, prefix) == {k \in DOMAIN data : StartsWith(k, prefix)}

\* ------------------------------------------------------------------------
\* Documents: JSON.parse, JSON.stringify and the document schemas
\* ------------------------------------------------------------------------

\* Result.try(() => JSON.parse(raw)).isOk()
JsonParses(raw) == raw.t = "json"

MetadataFields ==
    {"id", "namespaceId", "namespace", "name", "created", "updated",
     "versions", "latest"}

ProfileRequired == {"id", "namespace", "created", "updated"}

ProfileOptional == {"displayName", "bio", "website"}

DisplayNameMaxLen == 100

BioMaxLen == 500

\* Object.keys(versions) of a versions object kept as its entries in order
VersionKeys(versions) == [i \in 1..Len(versions) |-> versions[i].version]

\* skillMetadataSchema.safeParse(doc).success; ids are nanoid() results and
\* timestamps toISOString() results, which are well formed
skillMetadataSchema(doc) ==
    /\ MetadataFields \subseteq DOMAIN doc
    /\ namespaceSchema(doc.namespace)
    /\ skillNameSchema(doc.name)
    /\ \A i \in 1..Len(doc.versions) : semverSchema(doc.versions[i].version)
    /\ (doc.latest # Null => semverSchema(doc.latest))

\* userProfileSchema.safeParse(doc).success; website values are URLs
userProfileSchema(doc) ==
    /\ ProfileRequired \subseteq DOMAIN doc
    /\ namespaceSchema(doc.namespace)
    /\ ("displayName" \in DOMAIN doc => Len(doc.displayName) <= DisplayNameMaxLen)
    /\ ("bio" \in DOMAIN doc => Len(doc.bio) <= BioMaxLen)

\* JSON.stringify(profile): properties whose value is undefined are left out
StringifyProfile(obj) ==
    JsonValue([f \in {g \in DOMAIN obj :
                        g \in ProfileOptional => obj[g] # Undefined}
                 |-> obj[f]])

\* JSON.stringify(metadata)
StringifyMetadata(obj) == JsonValue(obj)

\* existing?.field for an optional field of a parsed profile
OptionalField(doc, f) == IF f \in DOMAIN doc THEN doc[f] ELSE Undefined

\* a faulty merge: the input's value, specified or not
Coalesce_InputOnly(a, b) == a

\* a ?? b
Coalesce(a, b) == IF a = Undefined \/ a = Null THEN b ELSE a

\* a faulty loadMetadata: a value that is no metadata document counts as
\* no value
MetadataState_CorruptAsAbsent(raw) ==
    IF raw = NullValue THEN "absent"
    ELSE IF ~JsonParses(raw) THEN "absent"
    ELSE IF ~skillMetadataSchema(raw.doc) THEN "absent"
    ELSE "ok"

\* loadMetadata after the get: "corrupt", "absent" or "ok"
MetadataState(raw) ==
    IF raw = NullValue THEN "absent"
    ELSE IF ~JsonParses(raw) THEN "corrupt"
    ELSE IF ~skillMetadataSchema(raw.doc) THEN "corrupt"
    ELSE "ok"

\* the same three outcomes for a profile document
ProfileState(raw) ==
    IF raw = NullValue THEN "absent"
    ELSE IF ~JsonParses(raw) THEN "corrupt"
    ELSE IF ~userProfileSchema(raw.doc) THEN "corrupt"
    ELSE "ok"

\* a faulty merge: the versions recorded before are dropped
SetVersion_DroppingOthers(versions, entry) == <<entry>>

\* { ...versions, [version]: info }: an existing key keeps its place
RECURSIVE SetVersion(_, _)
SetVersion(versions, entry) ==
    IF versions = <<>> THEN <<entry>>
    ELSE IF Head(versions).version = entry.version
    THEN <<entry>> \o Tail(versions)
    ELSE <<Head(versions)>> \o SetVersion(Tail(versions), entry)

\* ------------------------------------------------------------------------
\* The engine as a state machine (makeCore of src/src/core/core.ts)
\* ------------------------------------------------------------------------

\* store      the backend's data: key -> stored value
\* proc       the calls in flight, one per caller: operation, arguments,
\*            position (the await the call is suspended at) and locals
\* last       the call that returned last, with its result
\* clock      the time the next getNow() or new Date() returns; the clock
\*            advances at every reading, so that two readings differ
\* nextId     the next identifier nanoid() returns
\* started    the number of calls started so far
\* created    history: key -> the value of the first call that returned
\*            success for creating it (publishSkill for a version key,
\*            putIfNotExists in the storage specification), and the number
\*            of calls that did
\* firstMeta  history: metadata key -> the first document written there
\* raced      history: the metadata keys of the skills for which two
\*            publishSkill calls have been in flight at the same time
VARIABLES store, proc, last, clock, nextId, started, created, firstMeta, raced

vars == <<store, proc, last, clock, nextId, started, created, firstMeta, raced>>

Procs == {"p1", "p2"}

MaxOps == 3

NsA == <<"a">>

NsAB == <<"a", "b">>

V100 == <<"1", ".", "0", ".", "0">>

V110 == <<"1", ".", "1", ".", "0">>

V102 == <<"1", ".", "0", ".", "2">>

V200 == <<"2", ".", "0", ".", "0">>

V200b == <<"2", ".", "0", ".", "0", "-", "b">>

V210b == <<"2", ".", "1", ".", "0", "-", "b">>

V100a == <<"1", ".", "0", ".", "0", "-", "a">>

NoProfile == [displayName |-> Undefined, bio |-> Undefined, website |-> Undefined]

\* the profile the callers pass to updateProfile
ProfileInput == [NoProfile EXCEPT !.bio = <<"B">>]

NoResult == [code |-> "", detail |-> "", value |-> EmptyMap]

OkResult(value) == [code |-> "OK", detail |-> "", value |-> value]

\* Result.err(Errors.<kind>(...)); detail tells the messages of one kind apart
ErrResult(code, detail) == [code |-> code, detail |-> detail, value |-> EmptyMap]

\* wrote: the keys the call has written; calls: the storage calls it has
\* made; late: the call started after a publishSkill of its
\* (namespace, name, version) had returned success
IdleProc ==
    [op |-> "idle", pc |-> "idle",
     namespace |-> <<>>, name |-> <<>>, version |-> <<>>, content |-> "",
     identity |-> <<>>, profile |-> NoProfile,
     stored |-> FALSE, raw |-> NullValue, rawProfile |-> NullValue,
     now |-> 0, namespaceId |-> 0,
     result |-> NoResult, keys |-> {},
     wrote |-> {}, calls |-> 0, late |-> FALSE]

Init ==
    /\ store = EmptyMap
    /\ proc = [p \in Procs |-> IdleProc]
    /\ last = IdleProc
    /\ clock = 1
    /\ nextId = 1
    /\ started = 0
    /\ created = EmptyMap
    /\ firstMeta = EmptyMap
    /\ raced = {}

\* the call of p is suspended at its next await
Suspend(p, call) ==
    /\ proc' = [proc EXCEPT ![p] = call]
    /\ last' = last

\* the call of p returns r to its caller, who may call again
Finish(p, call, r) ==
    /\ proc' = [proc EXCEPT ![p] = IdleProc]
    /\ last' = [call EXCEPT !.pc = "done", !.result = r]

\* history: one more call has returned success for creating key
Record(hist, key, value) ==
    IF key \in DOMAIN hist
    THEN [hist EXCEPT ![key].count = hist[key].count + 1]
    ELSE MapPut(hist, key, [first |-> value, count |-> 1])

\* faulty checks: the authorization check is missing
PublishChecks_NoAuthorization(namespace, name, content, identity, maxSkillBytes) ==
    IF ContentBytes[content] > maxSkillBytes
    THEN ErrResult("INVALID_INPUT", "size")
    ELSE IF ~ContentFrontmatter[content].ok
    THEN ErrResult("INVALID_INPUT", ContentFrontmatter[content].code)
    ELSE IF ContentFrontmatter[content].frontmatter[K_name].str # name
    THEN ErrResult("INVALID_INPUT", "name")
    ELSE OkResult(EmptyMap)

\* faulty checks: the size check precedes the authorization check
PublishChecks_SizeFirst(namespace, name, content, identity, maxSkillBytes) ==
    IF ContentBytes[content] > maxSkillBytes
    THEN ErrResult("INVALID_INPUT", "size")
    ELSE IF identity # namespace
    THEN ErrResult("FORBIDDEN", "namespace")
    ELSE IF ~ContentFrontmatter[content].ok
    THEN ErrResult("INVALID_INPUT", ContentFrontmatter[content].code)
    ELSE IF ContentFrontmatter[content].frontmatter[K_name].str # name
    THEN ErrResult("INVALID_INPUT", "name")
    ELSE OkResult(EmptyMap)

\* faulty checks: the frontmatter name is not compared with the name
PublishChecks_NoNameCheck(namespace, name, content, identity, maxSkillBytes) ==
    IF identity # namespace
    THEN ErrResult("FORBIDDEN", "namespace")
    ELSE IF ContentBytes[content] > maxSkillBytes
    THEN ErrResult("INVALID_INPUT", "size")
    ELSE IF ~ContentFrontmatter[content].ok
    THEN ErrResult("INVALID_INPUT", ContentFrontmatter[content].code)
    ELSE OkResult(EmptyMap)

\* content.length for the texts of the model, whose code points are all
\* one UTF-16 unit wide
CharLength(text) == Len(text.head) + text.fillN

\* faulty checks: the size check counts characters, not bytes
PublishChecks_CharCount(namespace, name, content, identity, maxSkillBytes) ==
    IF identity # namespace
    THEN ErrResult("FORBIDDEN", "namespace")
    ELSE IF CharLength(ContentText(content)) > maxSkillBytes
    THEN ErrResult("INVALID_INPUT", "size")
    ELSE IF ~ContentFrontmatter[content].ok
    THEN ErrResult("INVALID_INPUT", ContentFrontmatter[content].code)
    ELSE IF ContentFrontmatter[content].frontmatter[K_name].str # name
    THEN ErrResult("INVALID_INPUT", "name")
    ELSE OkResult(EmptyMap)

\* the checks of publishSkill that precede its first storage call
publishChecks(namespace, name, content, identity, maxSkillBytes) ==
    IF identity # namespace
    THEN ErrResult("FORBIDDEN", "namespace")
    ELSE IF ContentBytes[content] > maxSkillBytes
    THEN ErrResult("INVALID_INPUT", "size")
    ELSE IF ~ContentFrontmatter[content].ok
    THEN ErrResult("INVALID_INPUT", ContentFrontmatter[content].code)
    ELSE IF ContentFrontmatter[content].frontmatter[K_name].str # name
    THEN ErrResult("INVALID_INPUT", "name")
    ELSE OkResult(EmptyMap)

\* the skills other callers are publishing to
PublishingElsewhere(p) ==
    {Keys_metadata(proc[q].namespace, proc[q].name) :
       q \in {r \in Procs \ {p} : proc[r].op = "publishSkill"}}

\* publishSkill after its checks: the error of the first failing check, or
\* storage.putIfNotExists(versionKey, content), which MemoryStorage runs
\* to its end before the caller is suspended
PublishPutIfNotExists(p, call, key, mkey, chk, put) ==
    IF chk.code # "OK"
    THEN /\ Finish(p, call, chk)
         /\ store' = store
         /\ raced' = raced
    ELSE /\ Suspend(p, [call EXCEPT !.pc = "putIfNotExists",
                                    !.stored = put.stored,
                                    !.calls = 1,
                                    !.wrote = IF put.stored THEN {key} ELSE {}])
         /\ store' = put.data
         /\ raced' = IF mkey \in PublishingElsewhere(p)
                     THEN raced \cup {mkey} ELSE raced

\* publishSkill up to its first await
PublishStart(p, namespace, name, version, content, identity) ==
    /\ proc[p].pc = "idle"
    /\ PublishPutIfNotExists(
         p,
         [IdleProc EXCEPT !.op = "publishSkill",
                          !.namespace = namespace, !.name = name,
                          !.version = version, !.content = content,
                          !.identity = identity,
                          !.late = Keys_version(namespace, name, version)
                                     \in DOMAIN created],
         Keys_version(namespace, name, version),
         Keys_metadata(namespace, name),
         publishChecks(namespace, name, content, identity, DefaultMaxSkillBytes),
         MemoryStorage_putIfNotExists(
           store, Keys_version(namespace, name, version), TextValue(content)))
    /\ started' = started + 1
    /\ UNCHANGED <<clock, nextId, created, firstMeta>>

\* after the putIfNotExists: VERSION_ALREADY_EXISTS, or loadMetadata's get
PublishLoadMetadata(p) ==
    /\ proc[p].op = "publishSkill" /\ proc[p].pc = "putIfNotExists"
    /\ IF ~proc[p].stored
       THEN Finish(p, proc[p], ErrResult("VERSION_ALREADY_EXISTS", ""))
       ELSE Suspend(p, [proc[p] EXCEPT
                          !.pc = "loadMetadata",
                          !.calls = @ + 1,
                          !.raw = MemoryStorage_get(
                                    store,
                                    Keys_metadata(proc[p].namespace,
                                                  proc[p].name))])
    /\ UNCHANGED <<store, clock, nextId, started, created, firstMeta, raced>>

\* loadMetadata's parse, then now = getNow() and the await of computeChecksum
PublishComputeChecksum(p) ==
    /\ proc[p].op = "publishSkill" /\ proc[p].pc = "loadMetadata"
    /\ IF MetadataState(proc[p].raw) = "corrupt"
       THEN /\ Finish(p, proc[p], ErrResult("CORRUPT_STORAGE_DATA", "metadata"))
            /\ clock' = clock
       ELSE /\ Suspend(p, [proc[p] EXCEPT !.pc = "computeChecksum",
                                          !.now = clock])
            /\ clock' = clock + 1
    /\ UNCHANGED <<store, nextId, started, created, firstMeta, raced>>

\* the VersionInfo publishSkill records for its version
VersionEntry(c) ==
    [version   |-> c.version,
     published |-> c.now,
     size      |-> ContentBytes[c.content],
     checksum  |-> computeChecksum(c.content)]

\* the metadata document for a skill without one
NewMetadata(c, id) ==
    [id          |-> id,
     namespaceId |-> c.namespaceId,
     namespace   |-> c.namespace,
     name        |-> c.name,
     created     |-> c.now,
     updated     |-> c.now,
     versions    |-> <<VersionEntry(c)>>,
     latest      |-> c.version]

\* a merge into the document stored at the time of the save, not into the
\* one loaded: what an atomic read-modify-write would store
UpdatedMetadata_Reloading(c, existing) ==
    [store[Keys_metadata(c.namespace, c.name)].doc EXCEPT
       !.updated  = c.now,
       !.versions = SetVersion(
                      store[Keys_metadata(c.namespace, c.name)].doc.versions,
                      VersionEntry(c)),
       !.latest   = resolveLatestVersion(
                      VersionKeys(
                        store[Keys_metadata(c.namespace,
                                            c.name)].doc.versions)
                      \o <<c.version>>)]

\* a faulty document: latest is the version just published
UpdatedMetadata_LatestIsPublished(c, existing) ==
    [existing EXCEPT
       !.updated  = c.now,
       !.versions = SetVersion(existing.versions, VersionEntry(c)),
       !.latest   = c.version]

\* the metadata document for a skill that has one
UpdatedMetadata(c, existing) ==
    [existing EXCEPT
       !.updated  = c.now,
       !.versions = SetVersion(existing.versions, VersionEntry(c)),
       !.latest   = resolveLatestVersion(
                      VersionKeys(existing.versions) \o <<c.version>>)]

\* the value publishSkill returns on success
PublishResult(c) ==
    OkResult([namespace |-> c.namespace, name |-> c.name,
              version |-> c.version, size |-> ContentBytes[c.content],
              checksum |-> computeChecksum(c.content),
              frontmatter |-> ContentFrontmatter[c.content].frontmatter])

\* saveMetadata(metadata) and the return of publishSkill
SaveMetadataAndReturn(p, c, key, metadata) ==
    /\ store' = MemoryStorage_put(store, key, StringifyMetadata(metadata))
    /\ Finish(p, [c EXCEPT !.calls = @ + 1, !.wrote = @ \cup {key}],
              PublishResult(c))
    /\ created' = Record(created,
                         Keys_version(c.namespace, c.name, c.version),
                         TextValue(c.content))
    /\ firstMeta' = IF key \in DOMAIN firstMeta THEN firstMeta
                    ELSE MapPut(firstMeta, key, metadata)

\* after the checksum: a skill with metadata is updated and saved; for a
\* new skill getOrCreateNamespaceId starts with its get of the profile
PublishAfterChecksum(p) ==
    /\ proc[p].op = "publishSkill" /\ proc[p].pc = "computeChecksum"
    /\ IF proc[p].raw = NullValue
       THEN /\ Suspend(p, [proc[p] EXCEPT
                             !.pc = "getNamespaceId",
                             !.calls = @ + 1,
                             !.rawProfile =
                                MemoryStorage_get(
                                  store, Keys_userProfile(proc[p].namespace))])
            /\ UNCHANGED <<store, created, firstMeta>>
       ELSE SaveMetadataAndReturn(
              p, proc[p],
              Keys_metadata(proc[p].namespace, proc[p].name),
              UpdatedMetadata(proc[p], proc[p].raw.doc))
    /\ UNCHANGED <<clock, nextId, started, raced>>

\* getOrCreateNamespaceId after its get: the id of a valid profile, or a
\* new profile with a new id, put at the profile key
PublishGetOrCreateNamespaceId(p) ==
    /\ proc[p].op = "publishSkill" /\ proc[p].pc = "getNamespaceId"
    /\ IF ProfileState(proc[p].rawProfile) = "ok"
       THEN /\ Suspend(p, [proc[p] EXCEPT
                             !.pc = "createMetadata",
                             !.namespaceId = proc[p].rawProfile.doc.id])
            /\ UNCHANGED <<store, clock, nextId>>
       ELSE /\ store' = MemoryStorage_put(
                          store, Keys_userProfile(proc[p].namespace),
                          StringifyProfile(
                            [id |-> nextId, namespace |-> proc[p].namespace,
                             created |-> clock, updated |-> clock]))
            /\ Suspend(p, [proc[p] EXCEPT
                             !.pc = "createMetadata",
                             !.namespaceId = nextId,
                             !.calls = @ + 1,
                             !.wrote = @ \cup
                                {Keys_userProfile(proc[p].namespace)}])
            /\ clock' = clock + 1
            /\ nextId' = nextId + 1
    /\ UNCHANGED <<started, created, firstMeta, raced>>

\* the new skill's metadata, with a new id, saved
PublishCreateMetadata(p) ==
    /\ proc[p].op = "publishSkill" /\ proc[p].pc = "createMetadata"
    /\ SaveMetadataAndReturn(
         p, proc[p],
         Keys_metadata(proc[p].namespace, proc[p].name),
         NewMetadata(proc[p], nextId))
    /\ nextId' = nextId + 1
    /\ UNCHANGED <<clock, started, raced>>

\* updateProfile up to its first await: the authorization check, getNow()
\* and the get of the profile
UpdateProfileStart(p, namespace, profile, identity) ==
    /\ proc[p].pc = "idle"
    /\ IF identity # namespace
       THEN /\ Finish(p, [IdleProc EXCEPT !.op = "updateProfile",
                                          !.namespace = namespace,
                                          !.profile = profile,
                                          !.identity = identity],
                      ErrResult("FORBIDDEN", "namespace"))
            /\ clock' = clock
       ELSE /\ Suspend(p, [IdleProc EXCEPT
                             !.op = "updateProfile", !.pc = "getProfile",
                             !.namespace = namespace,
                             !.profile = profile,
                             !.identity = identity,
                             !.now = clock,
                             !.calls = 1,
                             !.rawProfile =
                                MemoryStorage_get(
                                  store, Keys_userProfile(namespace))])
            /\ clock' = clock + 1
    /\ started' = started + 1
    /\ UNCHANGED <<store, nextId, created, firstMeta, raced>>

\* existing?.field ?? fresh for a required field of the existing profile
ExistingOr(valid, doc, f, fresh) == IF valid THEN doc[f] ELSE fresh

\* existing?.field for an optional field of the existing profile
ExistingOptional(valid, doc, f) ==
    IF valid THEN OptionalField(doc, f) ELSE Undefined

\* the profile updateProfile writes: a merge of the input into the existing
\* valid profile, or a new profile
UpdatedProfile(c, valid, doc, id) ==
    [id          |-> ExistingOr(valid, doc, "id", id),
     namespace   |-> c.namespace,
     displayName |-> Coalesce(c.profile.displayName,
                              ExistingOptional(valid, doc, "displayName")),
     bio         |-> Coalesce(c.profile.bio,
                              ExistingOptional(valid, doc, "bio")),
     website     |-> Coalesce(c.profile.website,
                              ExistingOptional(valid, doc, "website")),
     created     |-> ExistingOr(valid, doc, "created", c.now),
     updated     |-> c.now]

\* updateProfile's put and return
UpdateProfilePut(p, c, key, valid, updated) ==
    /\ store' = MemoryStorage_put(store, key, StringifyProfile(updated))
    /\ Finish(p, [c EXCEPT !.calls = @ + 1, !.wrote = @ \cup {key}],
              OkResult(updated))
    /\ nextId' = IF valid THEN nextId ELSE nextId + 1

\* updateProfile after its get: merge, put, return
UpdateProfileSave(p) ==
    /\ proc[p].op = "updateProfile" /\ proc[p].pc = "getProfile"
    /\ \E valid \in {ProfileState(proc[p].rawProfile) = "ok"} :
         UpdateProfilePut(
           p, proc[p], Keys_userProfile(proc[p].namespace), valid,
           UpdatedProfile(proc[p], valid, proc[p].rawProfile.doc, nextId))
    /\ UNCHANGED <<clock, started, created, firstMeta, raced>>

\* getSkillContent up to its first await: loadMetadata's get
GetSkillContentStart(p, namespace, name, version) ==
    /\ proc[p].pc = "idle"
    /\ Suspend(p, [IdleProc EXCEPT
                     !.op = "getSkillContent", !.pc = "loadMetadata",
                     !.namespace = namespace, !.name = name,
                     !.version = version, !.calls = 1,
                     !.late = Keys_version(namespace, name, version)
                                \in DOMAIN created,
                     !.raw = MemoryStorage_get(
                               store, Keys_metadata(namespace, name))])
    /\ started' = started + 1
    /\ UNCHANGED <<store, clock, nextId, created, firstMeta, raced>>

\* a faulty getSkillContent: a version without content is reported as
\* corrupt storage data, as getSkillLatest reports a latest without content
GetSkillContentReturn_MissingContentCorrupt(p, c, state, content) ==
    IF state = "corrupt"
    THEN Finish(p, c, ErrResult("CORRUPT_STORAGE_DATA", "metadata"))
    ELSE IF state = "absent"
    THEN Finish(p, c, ErrResult("NOT_FOUND", "metadata"))
    ELSE IF content = NullValue
    THEN Finish(p, [c EXCEPT !.calls = 2],
                ErrResult("CORRUPT_STORAGE_DATA", "content"))
    ELSE Finish(p, [c EXCEPT !.calls = 2],
                OkResult([content     |-> content.text,
                          skillId     |-> c.raw.doc.id,
                          namespaceId |-> c.raw.doc.namespaceId]))

\* getSkillContent after loadMetadata: the get of the content and the return
GetSkillContentReturn(p, c, state, content) ==
    IF state = "corrupt"
    THEN Finish(p, c, ErrResult("CORRUPT_STORAGE_DATA", "metadata"))
    ELSE IF state = "absent"
    THEN Finish(p, c, ErrResult("NOT_FOUND", "metadata"))
    ELSE IF content = NullValue
    THEN Finish(p, [c EXCEPT !.calls = 2], ErrResult("NOT_FOUND", "content"))
    ELSE Finish(p, [c EXCEPT !.calls = 2],
                OkResult([content     |-> content.text,
                          skillId     |-> c.raw.doc.id,
                          namespaceId |-> c.raw.doc.namespaceId]))

GetSkillContentFinish(p) ==
    /\ proc[p].op = "getSkillContent" /\ proc[p].pc = "loadMetadata"
    /\ GetSkillContentReturn(
         p, proc[p], MetadataState(proc[p].raw),
         MemoryStorage_get(
           store,
           Keys_version(proc[p].namespace, proc[p].name, proc[p].version)))
    /\ UNCHANGED <<store, clock, nextId, started, created, firstMeta, raced>>

\* getSkillLatest up to its first await: loadMetadata's get
GetSkillLatestStart(p, namespace, name) ==
    /\ proc[p].pc = "idle"
    /\ Suspend(p, [IdleProc EXCEPT
                     !.op = "getSkillLatest", !.pc = "loadMetadata",
                     !.namespace = namespace, !.name = name, !.calls = 1,
                     !.raw = MemoryStorage_get(
                               store, Keys_metadata(namespace, name))])
    /\ started' = started + 1
    /\ UNCHANGED <<store, clock, nextId, created, firstMeta, raced>>

\* getSkillLatest with valid metadata: the get of latest's content, the return
GetSkillLatestContent(p, c, latest, content) ==
    IF content = NullValue
    THEN Finish(p, [c EXCEPT !.calls = 2],
                ErrResult("CORRUPT_STORAGE_DATA", "latest"))
    ELSE Finish(p, [c EXCEPT !.calls = 2],
                OkResult([version     |-> latest,
                          content     |-> content.text,
                          skillId     |-> c.raw.doc.id,
                          namespaceId |-> c.raw.doc.namespaceId]))

\* getSkillLatest after loadMetadata
GetSkillLatestReturn(p, c, state) ==
    IF state = "corrupt"
    THEN Finish(p, c, ErrResult("CORRUPT_STORAGE_DATA", "metadata"))
    ELSE IF state = "absent"
    THEN Finish(p, c, ErrResult("NOT_FOUND", "metadata"))
    ELSE IF c.raw.doc.latest = Null
    THEN Finish(p, c, ErrResult("NOT_FOUND", "no versions"))
    ELSE GetSkillLatestContent(
           p, c, c.raw.doc.latest,
           MemoryStorage_get(
             store, Keys_version(c.namespace, c.name, c.raw.doc.latest)))

GetSkillLatestFinish(p) ==
    /\ proc[p].op = "getSkillLatest" /\ proc[p].pc = "loadMetadata"
    /\ GetSkillLatestReturn(p, proc[p], MetadataState(proc[p].raw))
    /\ UNCHANGED <<store, clock, nextId, started, created, firstMeta, raced>>

\* getSkillMetadata up to its first await: loadMetadata's get
GetSkillMetadataStart(p, namespace, name) ==
    /\ proc[p].pc = "idle"
    /\ Suspend(p, [IdleProc EXCEPT
                     !.op = "getSkillMetadata", !.pc = "loadMetadata",
                     !.namespace = namespace, !.name = name, !.calls = 1,
                     !.raw = MemoryStorage_get(
                               store, Keys_metadata(namespace, name))])
    /\ started' = started + 1
    /\ UNCHANGED <<store, clock, nextId, created, firstMeta, raced>>

\* getSkillMetadata after loadMetadata
GetSkillMetadataReturn(p, c, state) ==
    IF state = "corrupt"
    THEN Finish(p, c, ErrResult("CORRUPT_STORAGE_DATA", "metadata"))
    ELSE IF state = "absent"
    THEN Finish(p, c, ErrResult("NOT_FOUND", "metadata"))
    ELSE Finish(p, c, OkResult(c.raw.doc))

GetSkillMetadataFinish(p) ==
    /\ proc[p].op = "getSkillMetadata" /\ proc[p].pc = "loadMetadata"
    /\ GetSkillMetadataReturn(p, proc[p], MetadataState(proc[p].raw))
    /\ UNCHANGED <<store, clock, nextId, started, created, firstMeta, raced>>

\* listVersions up to its first await: loadMetadata's get
ListVersionsStart(p, namespace, name) ==
    /\ proc[p].pc = "idle"
    /\ Suspend(p, [IdleProc EXCEPT
                     !.op = "listVersions", !.pc = "loadMetadata",
                     !.namespace = namespace, !.name = name, !.calls = 1,
                     !.raw = MemoryStorage_get(
                               store, Keys_metadata(namespace, name))])
    /\ started' = started + 1
    /\ UNCHANGED <<store, clock, nextId, created, firstMeta, raced>>

\* listVersions after loadMetadata: Object.keys(versions), or []
ListVersionsReturn(p, c, state) ==
    IF state = "corrupt"
    THEN Finish(p, c, ErrResult("CORRUPT_STORAGE_DATA", "metadata"))
    ELSE IF state = "absent"
    THEN Finish(p, c, OkResult(<<>>))
    ELSE Finish(p, c, OkResult(VersionKeys(c.raw.doc.versions)))

ListVersionsFinish(p) ==
    /\ proc[p].op = "listVersions" /\ proc[p].pc = "loadMetadata"
    /\ ListVersionsReturn(p, proc[p], MetadataState(proc[p].raw))
    /\ UNCHANGED <<store, clock, nextId, started, created, firstMeta, raced>>

\* getProfile up to its first await: the get of the profile
GetProfileStart(p, namespace) ==
    /\ proc[p].pc = "idle"
    /\ Suspend(p, [IdleProc EXCEPT
                     !.op = "getProfile", !.pc = "getProfile",
                     !.namespace = namespace, !.calls = 1,
                     !.rawProfile = MemoryStorage_get(
                                      store, Keys_userProfile(namespace))])
    /\ started' = started + 1
    /\ UNCHANGED <<store, clock, nextId, created, firstMeta, raced>>

\* getProfile after its get
GetProfileReturn(p, c, state) ==
    IF state = "absent"
    THEN Finish(p, c, ErrResult("NOT_FOUND", "profile"))
    ELSE IF state = "corrupt"
    THEN Finish(p, c, ErrResult("CORRUPT_STORAGE_DATA", "profile"))
    ELSE Finish(p, c, OkResult(c.rawProfile.doc))

\* a faulty getProfile: a namespace without a valid profile is given one
GetProfileFinish_CreatingProfile(p) ==
    /\ proc[p].op = "getProfile" /\ proc[p].pc = "getProfile"
    /\ GetProfileReturn(p, proc[p], ProfileState(proc[p].rawProfile))
    /\ store' = IF ProfileState(proc[p].rawProfile) = "ok" THEN store
                ELSE MemoryStorage_put(
                       store, Keys_userProfile(proc[p].namespace),
                       StringifyProfile(
                         [id |-> nextId, namespace |-> proc[p].namespace,
                          created |-> clock, updated |-> clock]))
    /\ UNCHANGED <<clock, nextId, started, created, firstMeta, raced>>

GetProfileFinish(p) ==
    /\ proc[p].op = "getProfile" /\ proc[p].pc = "getProfile"
    /\ GetProfileReturn(p, proc[p], ProfileState(proc[p].rawProfile))
    /\ UNCHANGED <<store, clock, nextId, started, created, firstMeta, raced>>

\* key.match(/^skills\/([^/]+)\/([^/]+)\/metadata\.json$/) for the key split
\* at its slashes
MatchesMetadataKey(parts) ==
    /\ Len(parts) = 4
    /\ parts[1] = <<"s", "k", "i", "l", "l", "s">>
    /\ parts[2] # <<>>
    /\ parts[3] # <<>>
    /\ parts[4] = Tail(S_metadata)

\* the keys the pattern matches, split: the groups of a match are its second
\* and third part
MetadataKeyMatches(keys) ==
    {parts \in {Split(k, "/") : k \in keys} : MatchesMetadataKey(parts)}

\* listSkillsInNamespace up to its first await: storage.list(prefix)
ListSkillsInNamespaceStart(p, namespace) ==
    /\ proc[p].pc = "idle"
    /\ Suspend(p, [IdleProc EXCEPT
                     !.op = "listSkillsInNamespace", !.pc = "list",
                     !.namespace = namespace, !.calls = 1,
                     !.keys = MemoryStorage_list(
                                store, Keys_skillPrefix(namespace))])
    /\ started' = started + 1
    /\ UNCHANGED <<store, clock, nextId, created, firstMeta, raced>>

\* listSkillsInNamespace after the list: the Set of the names matched
ListSkillsInNamespaceFinish(p) ==
    /\ proc[p].op = "listSkillsInNamespace" /\ proc[p].pc = "list"
    /\ Finish(p, proc[p],
              OkResult({m[3] : m \in MetadataKeyMatches(proc[p].keys)}))
    /\ UNCHANGED <<store, clock, nextId, started, created, firstMeta, raced>>

\* listSkills up to its first await: storage.list(allSkillsPrefix)
ListSkillsStart(p) ==
    /\ proc[p].pc = "idle"
    /\ Suspend(p, [IdleProc EXCEPT
                     !.op = "listSkills", !.pc = "list", !.calls = 1,
                     !.keys = MemoryStorage_list(store, Keys_allSkillsPrefix)])
    /\ started' = started + 1
    /\ UNCHANGED <<store, clock, nextId, created, firstMeta, raced>>

\* listSkills after the list: the values of the Map of the pairs matched
ListSkillsFinish(p) ==
    /\ proc[p].op = "listSkills" /\ proc[p].pc = "list"
    /\ Finish(p, proc[p],
              OkResult({[namespace |-> m[2], name |-> m[3]] :
                          m \in MetadataKeyMatches(proc[p].keys)}))
    /\ UNCHANGED <<store, clock, nextId, started, created, firstMeta, raced>>

\* the steps of the read calls in flight that Step does not hold
ReadStep(p) ==
    \/ GetSkillMetadataFinish(p)
    \/ ListVersionsFinish(p)
    \/ GetProfileFinish(p)

\* the steps of the publishSkill calls in flight
PublishStep(p) ==
    \/ PublishLoadMetadata(p)
    \/ PublishComputeChecksum(p)
    \/ PublishAfterChecksum(p)
    \/ PublishGetOrCreateNamespaceId(p)
    \/ PublishCreateMetadata(p)

\* the steps of the publishSkill and updateProfile calls in flight
WriteStep(p) ==
    \/ PublishStep(p)
    \/ UpdateProfileSave(p)

\* the steps of the calls in flight
Step(p) ==
    \/ WriteStep(p)
    \/ GetSkillContentFinish(p)
    \/ GetSkillLatestFinish(p)

\* ------------------------------------------------------------------------
\* Specification Spec: two callers whose calls overlap; every call is
\* authorized and publishes valid content
\* ------------------------------------------------------------------------

\* the versions the callers of Spec publish and read
SpecVersions == {V100, V100a, V200b}

\* The callers publish versions of skill x of namespace a with one of two
\* valid contents, update a's profile, read one version and read the latest.
Start(p) ==
    /\ started < MaxOps
    /\ \/ \E v \in SpecVersions, c \in {"x-one", "x-two"} :
            PublishStart(p, NsA, NameX, v, c, NsA)
       \/ UpdateProfileStart(p, NsA, ProfileInput, NsA)
       \/ GetSkillContentStart(p, NsA, NameX, V100a)
       \/ GetSkillLatestStart(p, NsA, NameX)

Next == \E p \in Procs : Start(p) \/ Step(p)

Spec == Init /\ [][Next]_vars

\* ------------------------------------------------------------------------
\* Specification SpecArgs: two callers whose calls overlap and who pass any
\* arguments: any identity, any content
\* ------------------------------------------------------------------------

MaxArgsOps == 3

ArgsVersions == {V100, V110}

StartArgs(p) ==
    /\ started < MaxArgsOps
    /\ \/ \E v \in ArgsVersions, c \in Contents, id \in {NsA, NsAB} :
            PublishStart(p, NsA, NameX, v, c, id)
       \/ \E id \in {NsA, NsAB} : UpdateProfileStart(p, NsA, ProfileInput, id)
       \/ GetSkillContentStart(p, NsA, NameX, V100)
       \/ GetSkillLatestStart(p, NsA, NameX)

NextArgs == \E p \in Procs : StartArgs(p) \/ Step(p)

SpecArgs == Init /\ [][NextArgs]_vars

\* ------------------------------------------------------------------------
\* Specification SpecSeq: calls that do not overlap; every call is
\* authorized and publishes valid content
\* ------------------------------------------------------------------------

MaxSeqOps == 4

SeqVersions == {V110, V102, V200, V210b}

\* a call starts when no call is in flight
StartSeq(p) ==
    /\ started < MaxSeqOps
    /\ \A q \in Procs : proc[q].pc = "idle"
    /\ \/ \E v \in SeqVersions, c \in {"x-one", "x-two"} :
            PublishStart(p, NsA, NameX, v, c, NsA)
       \/ UpdateProfileStart(p, NsA, ProfileInput, NsA)
       \/ \E v \in SeqVersions : GetSkillContentStart(p, NsA, NameX, v)
       \/ GetSkillLatestStart(p, NsA, NameX)

NextSeq == \E p \in Procs : StartSeq(p) \/ Step(p)

SpecSeq == Init /\ [][NextSeq]_vars

\* ------------------------------------------------------------------------
\* KVStorage (src/src/storage/kv.ts), the backend of the deployed worker,
\* and specification SpecKV: two callers of its putIfNotExists and get
\* ------------------------------------------------------------------------

\* KVStorage.putIfNotExists up to its first await: existing = kv.get(key)
KVPutIfNotExistsStart(p, namespace, name, version, content) ==
    /\ proc[p].pc = "idle"
    /\ Suspend(p, [IdleProc EXCEPT
                     !.op = "putIfNotExists", !.pc = "kvGet",
                     !.namespace = namespace, !.name = name,
                     !.version = version, !.content = content,
                     !.calls = 1,
                     !.raw = MemoryStorage_get(
                               store, Keys_version(namespace, name, version))])
    /\ started' = started + 1
    /\ UNCHANGED <<store, clock, nextId, created, firstMeta, raced>>

\* after the get: false for a key that held a value, or kv.put(key, value)
\* and true
KVPutIfNotExistsPut(p, c, key) ==
    IF c.raw # NullValue
    THEN /\ Finish(p, c, OkResult(EmptyMap))
         /\ UNCHANGED <<store, created>>
    ELSE /\ store' = MemoryStorage_put(store, key, TextValue(c.content))
         /\ Finish(p, [c EXCEPT !.stored = TRUE, !.calls = 2, !.wrote = {key}],
                   OkResult(EmptyMap))
         /\ created' = Record(created, key, TextValue(c.content))

KVPutIfNotExistsFinish(p) ==
    /\ proc[p].op = "putIfNotExists" /\ proc[p].pc = "kvGet"
    /\ KVPutIfNotExistsPut(
         p, proc[p],
         Keys_version(proc[p].namespace, proc[p].name, proc[p].version))
    /\ UNCHANGED <<clock, nextId, started, firstMeta, raced>>

\* KVStorage.get: kv.get(key, "text")
KVGet(p, namespace, name, version) ==
    /\ proc[p].pc = "idle"
    /\ Finish(p, [IdleProc EXCEPT
                    !.op = "get",
                    !.namespace = namespace, !.name = name,
                    !.version = version, !.calls = 1,
                    !.raw = MemoryStorage_get(
                              store, Keys_version(namespace, name, version))],
              OkResult(EmptyMap))
    /\ started' = started + 1
    /\ UNCHANGED <<store, clock, nextId, created, firstMeta, raced>>

MaxKVOps == 4

\* the callers store contents at two version keys and read them
StartKV(p) ==
    /\ started < MaxKVOps
    /\ \/ \E v \in {V100, V110}, c \in {"x-one", "x-two"} :
            KVPutIfNotExistsStart(p, NsA, NameX, v, c)
       \/ \E v \in {V100, V110} : KVGet(p, NsA, NameX, v)

NextKV == \E p \in Procs : StartKV(p) \/ KVPutIfNotExistsFinish(p)

SpecKV == Init /\ [][NextKV]_vars

\* ------------------------------------------------------------------------
\* Specification SpecCorrupt: calls that do not overlap, and values that are
\* not documents put at a metadata key and at a profile key directly on the
\* backend, as the tests do with storage.put(key, "not valid json")
\* ------------------------------------------------------------------------

\* a put made on the backend directly
DirectPut(key, value) ==
    /\ store' = MemoryStorage_put(store, key, value)
    /\ started' = started + 1
    /\ UNCHANGED <<proc, last, clock, nextId, created, firstMeta, raced>>

\* a text JSON.parse throws for
NotJson == TextValue("plain")

\* {"name":"x"}: JSON without the other fields of a metadata document
MetadataWithoutFields == JsonValue([name |-> NameX])

\* a metadata document whose latest is 1.0, which is no semantic version
MetadataBadLatest ==
    JsonValue([id |-> 0, namespaceId |-> 0, namespace |-> NsA, name |-> NameX,
               created |-> 0, updated |-> 0, versions |-> <<>>,
               latest |-> <<"1", ".", "0">>])

CorruptMetadataValues == {NotJson, MetadataWithoutFields, MetadataBadLatest}

\* a profile document without its id
ProfileWithoutId == JsonValue([namespace |-> NsA, created |-> 0, updated |-> 0])

\* a profile document whose namespace is A, which is no namespace
ProfileBadNamespace ==
    JsonValue([id |-> 0, namespace |-> <<"A">>, created |-> 0, updated |-> 0])

CorruptProfileValues == {NotJson, ProfileWithoutId, ProfileBadNamespace}

MaxCorruptOps == 3

StartCorrupt(p) ==
    /\ started < MaxCorruptOps
    /\ \A q \in Procs : proc[q].pc = "idle"
    /\ \/ \E v \in {V100, V110} : PublishStart(p, NsA, NameX, v, "x-one", NsA)
       \/ UpdateProfileStart(p, NsA, ProfileInput, NsA)
       \/ GetSkillMetadataStart(p, NsA, NameX)
       \/ GetSkillContentStart(p, NsA, NameX, V100)
       \/ GetSkillLatestStart(p, NsA, NameX)
       \/ ListVersionsStart(p, NsA, NameX)
       \/ GetProfileStart(p, NsA)

\* between two calls a value that is no document is put at the metadata key
\* of skill x or at the profile key of namespace a
CorruptWrite ==
    /\ started < MaxCorruptOps
    /\ \A q \in Procs : proc[q].pc = "idle"
    /\ \/ \E v \in CorruptMetadataValues :
            DirectPut(Keys_metadata(NsA, NameX), v)
       \/ \E v \in CorruptProfileValues :
            DirectPut(Keys_userProfile(NsA), v)

NextCorrupt ==
    \/ CorruptWrite
    \/ \E p \in Procs : StartCorrupt(p) \/ Step(p) \/ ReadStep(p)

SpecCorrupt == Init /\ [][NextCorrupt]_vars

\* ------------------------------------------------------------------------
\* Specification SpecList: calls that do not overlap on the skills x and y
\* of namespace a and the skill x of namespace ab, and the listing calls
\* ------------------------------------------------------------------------

MaxListOps == 4

ListVersions == {V100, V100a}

\* the publishes of SpecList: versions of a/x, by a and by ab, and one
\* version each of a/y and ab/x
StartListPublish(p) ==
    \/ \E v \in ListVersions, id \in {NsA, NsAB} :
         PublishStart(p, NsA, NameX, v, "x-one", id)
    \/ PublishStart(p, NsA, NameY, V100, "y-one", NsA)
    \/ PublishStart(p, NsAB, NameX, V100, "x-two", NsAB)

StartList(p) ==
    /\ started < MaxListOps
    /\ \A q \in Procs : proc[q].pc = "idle"
    /\ \/ StartListPublish(p)
       \/ UpdateProfileStart(p, NsAB, ProfileInput, NsAB)
       \/ ListVersionsStart(p, NsA, NameX)
       \/ GetSkillMetadataStart(p, NsA, NameX)
       \/ \E ns \in {NsA, NsAB} : ListSkillsInNamespaceStart(p, ns)
       \/ ListSkillsStart(p)

\* the steps of the calls of SpecList
StepList(p) ==
    \/ WriteStep(p)
    \/ GetSkillMetadataFinish(p)
    \/ ListVersionsFinish(p)
    \/ ListSkillsInNamespaceFinish(p)
    \/ ListSkillsFinish(p)

NextList == \E p \in Procs : StartList(p) \/ StepList(p)

SpecList == Init /\ [][NextList]_vars

\* ------------------------------------------------------------------------
\* Specification SpecProfile: calls that do not overlap on the profile of
\* namespace a: updateProfile with several inputs, a publish, getProfile
\* ------------------------------------------------------------------------

MaxProfileOps == 4

\* the inputs of updateProfile: each field alone, a second value of bio, a
\* field with the empty string, and no field at all
ProfileInputs ==
    {ProfileInput,
     [NoProfile EXCEPT !.bio = <<"C">>],
     [NoProfile EXCEPT !.displayName = <<"N">>],
     [NoProfile EXCEPT !.website = <<"W">>],
     [NoProfile EXCEPT !.displayName = <<>>],
     NoProfile}

StartProfile(p) ==
    /\ started < MaxProfileOps
    /\ \A q \in Procs : proc[q].pc = "idle"
    /\ \/ \E in \in ProfileInputs : UpdateProfileStart(p, NsA, in, NsA)
       \/ PublishStart(p, NsA, NameX, V100, "x-one", NsA)
       \/ GetProfileStart(p, NsA)

NextProfile ==
    \E p \in Procs : StartProfile(p) \/ WriteStep(p) \/ GetProfileFinish(p)

SpecProfile == Init /\ [][NextProfile]_vars

\* ------------------------------------------------------------------------
\* Specification SpecSize: authorized publishes, which do not overlap, of
\* documents at the default size ceiling and one byte over it, and reads
\* ------------------------------------------------------------------------

MaxSizeOps == 3

StartSize(p) ==
    /\ started < MaxSizeOps
    /\ \A q \in Procs : proc[q].pc = "idle"
    /\ \/ \E v \in {V100, V110}, c \in BoundaryContents \cup {"x-one"} :
            PublishStart(p, NsA, NameX, v, c, NsA)
       \/ GetSkillContentStart(p, NsA, NameX, V100)

NextSize ==
    \E p \in Procs : StartSize(p) \/ PublishStep(p) \/ GetSkillContentFinish(p)

SpecSize == Init /\ [][NextSize]_vars

\* ------------------------------------------------------------------------
\* Specification SpecHeader: authorized publishes, which do not overlap, of
\* documents with further header lines and of the skills a-b and a--b
\* ------------------------------------------------------------------------

MaxHeaderOps == 3

\* the (name, content) pairs published: each content under the name its
\* frontmatter carries
HeaderPublishes ==
    ({NameX} \X ((HeaderContents \ {"d-one", "dd-one"}) \cup {"x-one"}))
        \cup {<<NameD, "d-one">>, <<NameDD, "dd-one">>}

StartHeader(p) ==
    /\ started < MaxHeaderOps
    /\ \A q \in Procs : proc[q].pc = "idle"
    /\ \E v \in {V100, V110}, pr \in HeaderPublishes :
         PublishStart(p, NsA, pr[1], v, pr[2], NsA)

NextHeader == \E p \in Procs : StartHeader(p) \/ PublishStep(p)

SpecHeader == Init /\ [][NextHeader]_vars

\* ------------------------------------------------------------------------
\* Specification SpecVersion: calls that do not overlap, in which the
\* version passed to publishSkill need not be a semver string, as when the
\* UI's create and edit handlers pass the form's version
\* ------------------------------------------------------------------------

MaxVersionOps == 3

\* "1.0" and "v1": strings that semverSchema rejects
V10 == <<"1", ".", "0">>

Vv1 == <<"v", "1">>

FormVersions == {V100, V110, V10, Vv1}

StartVersion(p) ==
    /\ started < MaxVersionOps
    /\ \A q \in Procs : proc[q].pc = "idle"
    /\ \/ \E v \in FormVersions :
            PublishStart(p, NsA, NameX, v, "x-one", NsA)
       \/ GetSkillMetadataStart(p, NsA, NameX)
       \/ GetSkillLatestStart(p, NsA, NameX)
       \/ ListVersionsStart(p, NsA, NameX)

StepVersion(p) ==
    \/ PublishStep(p)
    \/ GetSkillMetadataFinish(p)
    \/ GetSkillLatestFinish(p)
    \/ ListVersionsFinish(p)

NextVersion == \E p \in Procs : StartVersion(p) \/ StepVersion(p)

SpecVersion == Init /\ [][NextVersion]_vars

\* ------------------------------------------------------------------------
\* Specification SpecRace: the first calls, one per caller, may overlap;
\* every later call starts when no call is in flight and runs alone
\* ------------------------------------------------------------------------

MaxRaceOps == 3

StartRace(p) ==
    /\ started < MaxRaceOps
    /\ proc[p].pc = "idle"
    /\ started >= Cardinality(Procs) => \A q \in Procs : proc[q].pc = "idle"
    /\ \E v \in {V100, V110} : PublishStart(p, NsA, NameX, v, "x-one", NsA)

NextRace == \E p \in Procs : StartRace(p) \/ PublishStep(p)

SpecRace == Init /\ [][NextRace]_vars

\* ------------------------------------------------------------------------
\* Specification SpecRead: calls that do not overlap, the seven read
\* operations among them, on a store that holds documents the engine wrote
\* and values that are no documents
\* ------------------------------------------------------------------------

MaxReadOps == 3

StartRead(p) ==
    /\ started < MaxReadOps
    /\ \A q \in Procs : proc[q].pc = "idle"
    /\ \/ \E v \in {V100, V110} : PublishStart(p, NsA, NameX, v, "x-one", NsA)
       \/ UpdateProfileStart(p, NsA, ProfileInput, NsA)
       \/ GetSkillContentStart(p, NsA, NameX, V100)
       \/ GetSkillMetadataStart(p, NsA, NameX)
       \/ GetSkillLatestStart(p, NsA, NameX)
       \/ ListVersionsStart(p, NsA, NameX)
       \/ ListSkillsInNamespaceStart(p, NsA)
       \/ ListSkillsStart(p)
       \/ GetProfileStart(p, NsA)

\* between two calls a value that is no document is put at the metadata key
\* of skill x or at the profile key of namespace a
ReadCorruptWrite ==
    /\ started < MaxReadOps
    /\ \A q \in Procs : proc[q].pc = "idle"
    /\ \/ \E v \in CorruptMetadataValues :
            DirectPut(Keys_metadata(NsA, NameX), v)
       \/ \E v \in CorruptProfileValues :
            DirectPut(Keys_userProfile(NsA), v)

StepRead(p) ==
    \/ Step(p)
    \/ ReadStep(p)
    \/ ListSkillsInNamespaceFinish(p)
    \/ ListSkillsFinish(p)

NextRead ==
    \/ ReadCorruptWrite
    \/ \E p \in Procs : StartRead(p) \/ StepRead(p)

SpecRead == Init /\ [][NextRead]_vars

\* ------------------------------------------------------------------------
\* Specification SpecIso: two callers whose calls overlap, on the skills x
\* and y of namespace a, the skill x of namespace ab and the two profiles
\* ------------------------------------------------------------------------

MaxIsoOps == 3

StartIso(p) ==
    /\ started < MaxIsoOps
    /\ \/ \E v \in {V100, V110} : PublishStart(p, NsA, NameX, v, "x-one", NsA)
       \/ PublishStart(p, NsA, NameY, V100, "y-one", NsA)
       \/ PublishStart(p, NsAB, NameX, V100, "x-two", NsAB)
       \/ \E ns \in {NsA, NsAB} : UpdateProfileStart(p, ns, ProfileInput, ns)

NextIso == \E p \in Procs : StartIso(p) \/ WriteStep(p)

SpecIso == Init /\ [][NextIso]_vars

\* ------------------------------------------------------------------------
\* Properties
\* ------------------------------------------------------------------------

\* the version key of the call that returned last
LastKey == Keys_version(last.namespace, last.name, last.version)

\* the call is authorized and its content passes the content validation
Accepted(c) ==
    /\ c.identity = c.namespace
    /\ ContentBytes[c.content] <= DefaultMaxSkillBytes
    /\ ContentFrontmatter[c.content].ok
    /\ ContentFrontmatter[c.content].frontmatter[K_name].str = c.name

\* every key a publishSkill call has returned success for holds the content
\* of the first such call
CreatedContentKept ==
    \A k \in DOMAIN created : k \in DOMAIN store /\ store[k] = created[k].first

\* a getSkillContent call that started after a publishSkill call of its
\* triple had returned success returns that call's content
LateReadReturnsFirst ==
    (last.op = "getSkillContent" /\ last.late)
        => /\ last.result.code = "OK"
           /\ last.result.value.content = created[LastKey].first.text

\* C1 as written: once a publishSkill call for (namespace, name, version)
\* has returned success, every later publishSkill call with the same triple
\* returns VERSION_ALREADY_EXISTS whatever content it carries, and every
\* later getSkillContent call for the triple returns the content of the
\* first successful publish.
C1_EveryLaterPublishReturnsVersionAlreadyExists ==
    /\ (last.op = "publishSkill" /\ last.late)
           => last.result.code = "VERSION_ALREADY_EXISTS"
    /\ LateReadReturnsFirst

\* C1, amended: once a publishSkill call for (namespace, name, version) has
\* returned success, no later publishSkill call with the same triple
\* succeeds, whatever content it carries; a later call that is authorized
\* and whose content passes the content validation returns
\* VERSION_ALREADY_EXISTS; the stored content stays that of the first
\* successful publish, and every later getSkillContent call returns it.
C1_PublishedVersionImmutable ==
    /\ (last.op = "publishSkill" /\ last.late)
           => /\ last.result.code # "OK"
              /\ Accepted(last) => last.result.code = "VERSION_ALREADY_EXISTS"
    /\ LateReadReturnsFirst
    /\ CreatedContentKept

\* a later publish of a published triple with another content was refused
C1_Witness ==
    /\ last.op = "publishSkill" /\ last.late
    /\ last.result.code = "VERSION_ALREADY_EXISTS"
    /\ TextValue(last.content) # created[LastKey].first

\* the publishSkill calls in flight whose putIfNotExists(k, ...) returned b
InFlight(k, b) ==
    {p \in Procs : /\ proc[p].op = "publishSkill"
                   /\ proc[p].stored = b
                   /\ Keys_version(proc[p].namespace, proc[p].name,
                                   proc[p].version) = k}

\* the publishSkill calls for k that have returned success
Succeeded(k) == IF k \in DOMAIN created THEN created[k].count ELSE 0

\* C2: among publishSkill calls with the same (namespace, name, version)
\* that are authorized and carry valid content, under any interleaving,
\* exactly one returns success and all the others return
\* VERSION_ALREADY_EXISTS, and the stored content is the successful
\* caller's content: at most one call wins the key, a call loses only to a
\* winner, the winner returns success and a loser VERSION_ALREADY_EXISTS.
C2_ExactlyOnePublishSucceeds ==
    /\ \A v \in SpecVersions :
         /\ Cardinality(InFlight(Keys_version(NsA, NameX, v), TRUE))
              + Succeeded(Keys_version(NsA, NameX, v)) <= 1
         /\ \/ InFlight(Keys_version(NsA, NameX, v), FALSE) = {}
            \/ InFlight(Keys_version(NsA, NameX, v), TRUE) # {}
            \/ Succeeded(Keys_version(NsA, NameX, v)) = 1
    /\ last.op = "publishSkill"
         => /\ last.result.code =
                 IF last.stored THEN "OK" ELSE "VERSION_ALREADY_EXISTS"
            /\ Succeeded(LastKey) = 1
               \/ InFlight(LastKey, TRUE) # {}
    /\ CreatedContentKept

\* two overlapping publishes of one triple with different contents have
\* both returned: the second to return lost
C2_Witness ==
    /\ last.op = "publishSkill" /\ ~last.late
    /\ last.result.code = "VERSION_ALREADY_EXISTS"
    /\ LastKey \in DOMAIN created
    /\ TextValue(last.content) # created[LastKey].first

\* C3: KVStorage.putIfNotExists is an atomic create-if-absent: under any
\* interleaving of calls on one absent key exactly one call returns true
\* and the value stored afterwards is the value that call passed; a call on
\* a key that holds a value returns false and leaves the value unchanged.
C3_KVPutIfNotExistsAtomic ==
    /\ \A k \in DOMAIN created :
         /\ created[k].count = 1
         /\ store[k] = created[k].first
    /\ (last.op = "putIfNotExists" /\ last.raw # NullValue)
           => ~last.stored /\ last.wrote = {}

\* a call of publishSkill or updateProfile by another namespace's identity
Unauthorized(c) ==
    c.op \in {"publishSkill", "updateProfile"} /\ c.identity # c.namespace

\* C4: every publishSkill or updateProfile call whose identity.namespace
\* differs from the target namespace returns FORBIDDEN and performs no
\* store write, whatever the other arguments and the store: the call
\* returns in the step it starts in, without a storage call, and that step
\* leaves the store as it is.
C4_UnauthorizedCallForbidden ==
    [][/\ \A p \in Procs : ~Unauthorized(proc'[p])
       /\ (started' # started /\ proc' = proc /\ Unauthorized(last'))
            => /\ last'.result.code = "FORBIDDEN"
               /\ last'.calls = 0
               /\ last'.wrote = {}
               /\ store' = store]_vars

\* an unauthorized publish of valid content into a store that holds data
\* was refused
C4_Witness ==
    /\ last.op = "publishSkill" /\ last.identity # last.namespace
    /\ last.content = "x-one"
    /\ last.result.code = "FORBIDDEN"
    /\ store # EmptyMap

\* the (major, minor, patch) of the versions the callers publish
SemverTriple(v) ==
    CASE v = V100  -> <<1, 0, 0>>
      [] v = V110  -> <<1, 1, 0>>
      [] v = V102  -> <<1, 0, 2>>
      [] v = V200  -> <<2, 0, 0>>
      [] v = V200b -> <<2, 0, 0>>
      [] v = V210b -> <<2, 1, 0>>
      [] v = V100a -> <<1, 0, 0>>

\* major first, then minor, then patch
TripleLess(a, b) ==
    \/ a[1] < b[1]
    \/ a[1] = b[1] /\ a[2] < b[2]
    \/ a[1] = b[1] /\ a[2] = b[2] /\ a[3] < b[3]

\* v has no pre-release suffix
IsStable(v) == \A i \in 1..Len(v) : v[i] # "-"

\* the versions of skill x of namespace a that have been published
PublishedVersions(versions) ==
    {v \in versions : Keys_version(NsA, NameX, v) \in DOMAIN created}

\* v is the stable version of vs with the greatest triple
GreatestStable(v, vs) ==
    /\ v \in vs
    /\ IsStable(v)
    /\ \A w \in vs : IsStable(w) => ~TripleLess(SemverTriple(v), SemverTriple(w))

\* the metadata key of skill x of namespace a
MetaKey == Keys_metadata(NsA, NameX)

\* C5: after any sequence of non-overlapping successful publishes to one
\* skill, in any order, if a published version has no pre-release suffix
\* then metadata.latest, and the version getSkillLatest returns, is the
\* stable version with the greatest (major, minor, patch), compared major
\* first, then minor, then patch; a pre-release with a larger triple never
\* becomes latest while a stable version exists.
C5_LatestPrefersStable ==
    (\E v \in PublishedVersions(SeqVersions) : IsStable(v))
        => /\ MetaKey \in DOMAIN store
           /\ GreatestStable(store[MetaKey].doc.latest,
                             PublishedVersions(SeqVersions))
           /\ last.op = "getSkillLatest"
                => /\ last.result.code = "OK"
                   /\ GreatestStable(last.result.value.version,
                                     PublishedVersions(SeqVersions))

\* 1.0.2, 1.1.0 and 2.1.0-b are published and getSkillLatest returned 1.1.0
C5_Witness ==
    /\ PublishedVersions(SeqVersions) = {V102, V110, V210b}
    /\ last.op = "getSkillLatest"
    /\ last.result.code = "OK"
    /\ last.result.value.version = V110

\* the version keys of a metadata document
VersionKeySet(doc) == {doc.versions[i].version : i \in 1..Len(doc.versions)}

\* C6: in every state reachable through engine operations, under any
\* interleaving, every stored skill metadata document has a non-null latest
\* that is a key of the document's versions; a skill with only pre-release
\* versions has one of them as latest, never null.
C6_LatestIsAVersionKey ==
    MetaKey \in DOMAIN store
        => /\ store[MetaKey].doc.latest # Null
           /\ store[MetaKey].doc.latest \in VersionKeySet(store[MetaKey].doc)

\* the metadata lists two versions, both pre-releases, and latest is one of
\* them
C6_Witness ==
    /\ MetaKey \in DOMAIN store
    /\ VersionKeySet(store[MetaKey].doc) = {V100a, V200b}
    /\ store[MetaKey].doc.latest \in {V100a, V200b}

\* every entry of the versions of doc is an entry of the versions of next
EntriesKept(doc, next) ==
    \A i \in 1..Len(doc.versions) :
       \E j \in 1..Len(next.versions) : next.versions[j] = doc.versions[i]

\* C7: the versions of a skill's metadata only grow: once a version key is
\* present in the stored metadata.versions it is present in every later
\* state with the same VersionInfo (published, size, checksum); no engine
\* operation removes or changes an entry.
C7_VersionsOnlyGrow ==
    [][(MetaKey \in DOMAIN store)
         => /\ MetaKey \in DOMAIN store'
            /\ EntriesKept(store[MetaKey].doc, store'[MetaKey].doc)]_vars

\* what holds of C7: the entries are kept as long as no two publishSkill
\* calls for the skill have been in flight at the same time
VersionsGrowWithoutOverlap ==
    [][(MetaKey \in DOMAIN store /\ MetaKey \notin raced)
         => /\ MetaKey \in DOMAIN store'
            /\ EntriesKept(store[MetaKey].doc, store'[MetaKey].doc)]_vars

\* C8: a skill's metadata id, namespaceId and created are fixed at the
\* skill's first publish: in every later state, after any number of
\* further publishes to the skill, the stored metadata carries the id,
\* namespaceId and created of the first metadata document written for it.
C8_IdentityFixedAtFirstPublish ==
    MetaKey \in DOMAIN firstMeta
        => /\ store[MetaKey].doc.id = firstMeta[MetaKey].id
           /\ store[MetaKey].doc.namespaceId = firstMeta[MetaKey].namespaceId
           /\ store[MetaKey].doc.created = firstMeta[MetaKey].created

\* what holds of C8: the three fields are kept as long as no two
\* publishSkill calls for the skill have been in flight at the same time
IdentityFixedWithoutOverlap ==
    MetaKey \in raced \/ C8_IdentityFixedAtFirstPublish

\* C9: when a publishSkill call fails more than one check, the error is
\* that of the first failing check in the order caller-namespace mismatch
\* (FORBIDDEN), content size, frontmatter validity, frontmatter-name
\* mismatch (each INVALID_INPUT), version already stored
\* (VERSION_ALREADY_EXISTS); no store call is made before the first four
\* checks pass.
C9_FirstFailingCheckDecides ==
    /\ \A p \in Procs : proc[p].op = "publishSkill" => Accepted(proc[p])
    /\ last.op = "publishSkill"
         => /\ IF last.identity # last.namespace
               THEN last.result.code = "FORBIDDEN"
               ELSE IF ContentBytes[last.content] > DefaultMaxSkillBytes
               THEN /\ last.result.code = "INVALID_INPUT"
                    /\ last.result.detail = "size"
               ELSE IF ~ContentFrontmatter[last.content].ok
               THEN /\ last.result.code = "INVALID_INPUT"
                    /\ last.result.detail = ContentFrontmatter[last.content].code
               ELSE IF ContentFrontmatter[last.content].frontmatter[K_name].str
                         # last.name
               THEN /\ last.result.code = "INVALID_INPUT"
                    /\ last.result.detail = "name"
               ELSE last.result.code \in {"OK", "VERSION_ALREADY_EXISTS"}
            /\ ~Accepted(last) => last.calls = 0 /\ last.wrote = {}
            /\ last.result.code = "VERSION_ALREADY_EXISTS"
                 => last.calls = 1 /\ last.wrote = {}

\* content without frontmatter for a version that is published already was
\* refused as invalid input
C9_Witness ==
    /\ last.op = "publishSkill" /\ last.late
    /\ last.identity = last.namespace
    /\ last.content = "plain"
    /\ last.result.code = "INVALID_INPUT"

\* the content's frontmatter parses and names another skill than the call
NameDiffers(c) ==
    /\ ContentFrontmatter[c.content].ok
    /\ ContentFrontmatter[c.content].frontmatter[K_name].str # c.name

\* C10 as written: every publishSkill call whose parsed frontmatter name
\* differs from the name argument returns INVALID_INPUT and writes nothing
\* to the store, however valid the rest of the frontmatter and content is.
C10_EveryNameMismatchIsInvalidInput ==
    (last.op = "publishSkill" /\ NameDiffers(last))
        => last.result.code = "INVALID_INPUT" /\ last.wrote = {}

\* C10, amended: every publishSkill call by an identity of the target
\* namespace whose parsed frontmatter name differs from the name argument
\* returns INVALID_INPUT and writes nothing to the store, however valid the
\* rest of the frontmatter and content is.
C10_AuthorizedNameMismatchIsInvalidInput ==
    (last.op = "publishSkill" /\ last.identity = last.namespace
       /\ NameDiffers(last))
        => /\ last.result.code = "INVALID_INPUT"
           /\ last.wrote = {}
           /\ last.calls = 0

\* valid content for skill y, within the size ceiling, published to skill x
\* by the namespace's identity was refused for its name
C10_Witness ==
    /\ last.op = "publishSkill" /\ last.identity = last.namespace
    /\ last.content = "y-one"
    /\ last.name = NameX
    /\ last.result.code = "INVALID_INPUT"
    /\ last.result.detail = "name"

\* a call of operation op returns in this step
Returns(op) == \E p \in Procs : proc[p].op = op /\ proc'[p].pc = "idle"

\* C11: getSkillContent(namespace, name, version) returns success exactly
\* when both the skill's metadata document and the version's content are in
\* the store; the result then carries the stored content and the id and
\* namespaceId of the metadata as skillId and namespaceId; when the metadata
\* or the content is absent it returns NOT_FOUND. Calls do not overlap, so
\* the store is the same from the call to its return.
C11_GetSkillContentSuccessConditions ==
    [][Returns("getSkillContent")
         => /\ last'.op = "getSkillContent"
            /\ store' = store
            /\ IF /\ Keys_metadata(last'.namespace, last'.name) \in DOMAIN store
                  /\ LastKey' \in DOMAIN store
               THEN /\ last'.result.code = "OK"
                    /\ last'.result.value.content = store[LastKey'].text
                    /\ last'.result.value.skillId =
                         store[Keys_metadata(last'.namespace, last'.name)].doc.id
                    /\ last'.result.value.namespaceId =
                         store[Keys_metadata(last'.namespace,
                                             last'.name)].doc.namespaceId
               ELSE last'.result.code = "NOT_FOUND"]_vars

\* a read of a published version returned its content with the two ids, and
\* the skill has another version
C11_Witness ==
    /\ last.op = "getSkillContent"
    /\ last.result.code = "OK"
    /\ last.result.value.content = "x-two"
    /\ last.result.value.skillId # last.result.value.namespaceId
    /\ MetaKey \in DOMAIN store
    /\ Len(store[MetaKey].doc.versions) = 2

\* the calls that begin with loadMetadata and fail when it fails
MetadataReads ==
    {"getSkillMetadata", "getSkillContent", "getSkillLatest", "listVersions"}

\* C12: when the value stored at a skill's metadata key is not valid JSON or
\* violates the document schema, getSkillMetadata, getSkillContent,
\* getSkillLatest and listVersions for the skill return
\* CORRUPT_STORAGE_DATA as an error value, and so does getProfile when the
\* value stored at the namespace's profile key is no profile document;
\* none returns NOT_FOUND for it.
C12_CorruptReadIsCorruptStorageData ==
    [][/\ (/\ \E op \in MetadataReads : Returns(op)
           /\ MetaKey \in DOMAIN store
           /\ store[MetaKey] \in CorruptMetadataValues)
            => /\ last'.op \in MetadataReads
               /\ last'.result.code = "CORRUPT_STORAGE_DATA"
               /\ store' = store
       /\ (/\ Returns("getProfile")
           /\ Keys_userProfile(NsA) \in DOMAIN store
           /\ store[Keys_userProfile(NsA)] \in CorruptProfileValues)
            => /\ last'.op = "getProfile"
               /\ last'.result.code = "CORRUPT_STORAGE_DATA"
               /\ store' = store]_vars

\* listVersions returned CORRUPT_STORAGE_DATA for a skill with a published
\* version whose metadata key holds a document with a latest that is no
\* version
C12_Witness ==
    /\ last.op = "listVersions"
    /\ last.result.code = "CORRUPT_STORAGE_DATA"
    /\ MetaKey \in DOMAIN store
    /\ store[MetaKey] = MetadataBadLatest
    /\ Keys_version(NsA, NameX, V100) \in DOMAIN store

\* the versions of skill x of namespace a whose publish returned success
ListPublished ==
    {v \in ListVersions : Keys_version(NsA, NameX, v) \in DOMAIN created}

\* the set of the elements of a list
Elements(list) == {list[i] : i \in 1..Len(list)}

\* C13: with non-overlapping operations, after any sequence of publishSkill
\* calls listVersions(namespace, name) returns exactly the versions whose
\* publish returned success for the skill, each once, which are the keys of
\* the versions of the document getSkillMetadata returns; it returns
\* success with an empty list when the skill was never published.
C13_ListVersionsReturnsPublished ==
    [][/\ Returns("listVersions")
            => /\ last'.op = "listVersions"
               /\ last'.result.code = "OK"
               /\ Elements(last'.result.value) = ListPublished
               /\ Len(last'.result.value) = Cardinality(ListPublished)
       /\ Returns("getSkillMetadata")
            => IF ListPublished = {}
               THEN last'.result.code = "NOT_FOUND"
               ELSE /\ last'.result.code = "OK"
                    /\ VersionKeySet(last'.result.value) = ListPublished]_vars

\* listVersions returned the two versions published, in the order of their
\* publishes
C13_Witness ==
    /\ last.op = "listVersions"
    /\ last.result.code = "OK"
    /\ last.result.value = <<V100a, V100>>
    /\ ListPublished = {V100, V100a}

\* the (namespace, name) pairs of SpecList that have a stored metadata
\* document
StoredSkills ==
    {pr \in {NsA, NsAB} \X {NameX, NameY} :
       Keys_metadata(pr[1], pr[2]) \in DOMAIN store}

\* C14: listSkills returns exactly the distinct (namespace, name) pairs
\* that have a stored metadata document, and listSkillsInNamespace(ns)
\* exactly the names of those pairs whose namespace is ns: skills of other
\* namespaces, also of a namespace that ns is a prefix of, version keys and
\* profile keys add no entry, and a namespace with only a profile yields
\* the empty list.
C14_ListingsReturnStoredSkills ==
    [][/\ Returns("listSkills")
            => /\ last'.op = "listSkills"
               /\ last'.result.code = "OK"
               /\ last'.result.value =
                    {[namespace |-> pr[1], name |-> pr[2]] : pr \in StoredSkills}
       /\ Returns("listSkillsInNamespace")
            => /\ last'.op = "listSkillsInNamespace"
               /\ last'.result.code = "OK"
               /\ last'.result.value =
                    {pr[2] : pr \in {q \in StoredSkills :
                                       q[1] = last'.namespace}}]_vars

\* listSkillsInNamespace(a) returned no skill while namespace ab, which a is
\* a prefix of, has skill x, its version and its profile stored
C14_Witness ==
    /\ last.op = "listSkillsInNamespace"
    /\ last.namespace = NsA
    /\ last.result.code = "OK"
    /\ last.result.value = {}
    /\ StoredSkills = {<<NsAB, NameX>>}
    /\ Keys_userProfile(NsAB) \in DOMAIN store
    /\ Keys_version(NsAB, NameX, V100) \in DOMAIN store

\* the profile key of namespace a
ProfileKey == Keys_userProfile(NsA)

\* field f of the profile document next is what the call made of document
\* doc: the value the call specified, or what doc had, or nothing
FieldMerged(f, input, doc, next) ==
    IF input[f] # Undefined
    THEN f \in DOMAIN next /\ next[f] = input[f]
    ELSE IF f \in DOMAIN doc
    THEN f \in DOMAIN next /\ next[f] = doc[f]
    ELSE f \notin DOMAIN next

\* C15: updateProfile is a partial merge: for non-overlapping authorized
\* calls on a namespace whose stored profile is valid, each field among
\* displayName, bio and website that the call does not specify keeps the
\* value it had, id and created keep their values and updated becomes the
\* current time; on a namespace without a profile the call creates one with
\* a freshly generated id and created = updated = now.
C15_UpdateProfileMerges ==
    [][Returns("updateProfile")
         => /\ last'.op = "updateProfile"
            /\ last'.result.code = "OK"
            /\ ProfileKey \in DOMAIN store'
            /\ store'[ProfileKey].doc.updated = last'.now
            /\ IF ProfileKey \in DOMAIN store
               THEN /\ \A f \in ProfileOptional :
                         FieldMerged(f, last'.profile, store[ProfileKey].doc,
                                     store'[ProfileKey].doc)
                    /\ store'[ProfileKey].doc.id = store[ProfileKey].doc.id
                    /\ store'[ProfileKey].doc.created =
                         store[ProfileKey].doc.created
                    /\ store'[ProfileKey].doc.updated
                         > store[ProfileKey].doc.updated
               ELSE /\ \A f \in ProfileOptional :
                         FieldMerged(f, last'.profile, EmptyMap,
                                     store'[ProfileKey].doc)
                    /\ store'[ProfileKey].doc.id = nextId
                    /\ nextId' > nextId
                    /\ store'[ProfileKey].doc.created = last'.now]_vars

\* an update that specifies the display name alone was made on a profile
\* with a bio and a website: the profile has the three
C15_Witness ==
    /\ last.op = "updateProfile"
    /\ last.profile = [NoProfile EXCEPT !.displayName = <<"N">>]
    /\ ProfileKey \in DOMAIN store
    /\ ProfileOptional \subseteq DOMAIN store[ProfileKey].doc
    /\ store[ProfileKey].doc.bio = <<"B">>
    /\ store[ProfileKey].doc.website = <<"W">>
    /\ store[ProfileKey].doc.displayName = <<"N">>
    /\ store[ProfileKey].doc.updated > store[ProfileKey].doc.created

\* C16: a namespace's profile id is stable: once a profile document has
\* been stored for the namespace, by a first publish or a first
\* updateProfile, every later state reachable by any interleaving of
\* publishSkill and updateProfile calls in the namespace holds a profile
\* with that id.
C16_ProfileIdStable ==
    [][(ProfileKey \in DOMAIN store)
         => /\ ProfileKey \in DOMAIN store'
            /\ store'[ProfileKey].doc.id = store[ProfileKey].doc.id]_vars

\* C17: publishSkill compares the UTF-8 byte length of the content, not its
\* character count, with maxSkillBytes (default 262144): a call whose
\* content is longer in bytes than the ceiling returns INVALID_INPUT and
\* writes nothing, and a call whose content has exactly the ceiling's
\* length in bytes is not rejected for its size. The texts at the boundary
\* have the lengths meant, and fewer characters than the ceiling.
C17_SizeCeilingInBytes ==
    /\ ContentBytes["x-exact"] = DefaultMaxSkillBytes
    /\ ContentBytes["x-exact-wide"] = DefaultMaxSkillBytes
    /\ ContentBytes["x-over"] = DefaultMaxSkillBytes + 1
    /\ ContentBytes["x-over-wide"] = DefaultMaxSkillBytes + 1
    /\ CharLength(ContentText("x-over-wide")) < DefaultMaxSkillBytes
    /\ (last.op = "publishSkill" /\ last.identity = last.namespace)
         => IF last.content \in {"x-over", "x-over-wide"}
            THEN /\ last.result.code = "INVALID_INPUT"
                 /\ last.result.detail = "size"
                 /\ last.wrote = {}
                 /\ last.calls = 0
            ELSE /\ last.result.code \in {"OK", "VERSION_ALREADY_EXISTS"}
                 /\ last.late \/ last.result.code = "OK"
    /\ \A k \in DOMAIN store :
         store[k].t = "text" => store[k].text \notin {"x-over", "x-over-wide"}

\* a document of exactly 262144 bytes, filled with two-byte characters, was
\* published and is stored
C17_Witness ==
    /\ last.op = "publishSkill"
    /\ last.content = "x-exact-wide"
    /\ last.result.code = "OK"
    /\ last.result.value.size = DefaultMaxSkillBytes
    /\ LastKey \in DOMAIN store
    /\ store[LastKey] = TextValue("x-exact-wide")

\* the publishSkill call of p saves its metadata document in this step, and
\* the metadata stored is not what the call loaded: another call has saved
\* since
StaleSave(p) ==
    /\ proc[p].op = "publishSkill"
    /\ proc[p].pc \in {"computeChecksum", "createMetadata"}
    /\ proc'[p].pc = "idle"
    /\ MemoryStorage_get(store, MetaKey) # proc[p].raw

\* the versions of skill x whose publish returned success and whose content
\* is stored, and which the metadata of st does not list
LostVersions(st, hist) ==
    {v \in SpecVersions :
       /\ Keys_version(NsA, NameX, v) \in DOMAIN hist
       /\ Keys_version(NsA, NameX, v) \in DOMAIN st
       /\ v \notin VersionKeySet(st[MetaKey].doc)}

\* C18: the known lost-update race: when two publishSkill calls for two
\* different new versions of one skill interleave so that both load the
\* metadata before either saves it, both return success and both contents
\* are stored, and the metadata saved last lacks the version of the call
\* that saved first: a save over a document the call did not load returns
\* success and leaves a published version out of metadata.versions.
C18_StaleSaveDropsVersion ==
    [][\A p \in Procs :
         StaleSave(p)
           => /\ last'.result.code = "OK"
              /\ LastKey' \in DOMAIN store'
              /\ last'.version \in VersionKeySet(store'[MetaKey].doc)
              /\ LostVersions(store', created) # {}]_vars

\* no call is in flight; the publishes of 1.0.0 and of 1.0.0-a have both
\* returned success, both contents are stored, and the metadata lists one
\* version only
C18_Witness ==
    /\ \A p \in Procs : proc[p].pc = "idle"
    /\ Keys_version(NsA, NameX, V100) \in DOMAIN created
    /\ Keys_version(NsA, NameX, V100a) \in DOMAIN created
    /\ Keys_version(NsA, NameX, V100) \in DOMAIN store
    /\ Keys_version(NsA, NameX, V100a) \in DOMAIN store
    /\ Len(store[MetaKey].doc.versions) = 1
    /\ Cardinality(LostVersions(store, created)) = 1

\* C19: metadata never references missing content: in every state reachable
\* through engine operations only, under any interleaving, every version
\* key of the stored metadata.versions, and metadata.latest, has its
\* content stored at the version key; getSkillLatest never returns
\* CORRUPT_STORAGE_DATA and returns the content published under latest.
C19_MetadataReferencesStoredContent ==
    /\ MetaKey \in DOMAIN store
         => /\ \A v \in VersionKeySet(store[MetaKey].doc) :
                 Keys_version(NsA, NameX, v) \in DOMAIN store
            /\ Keys_version(NsA, NameX, store[MetaKey].doc.latest)
                 \in DOMAIN store
    /\ last.op = "getSkillLatest"
         => /\ last.result.code \in {"OK", "NOT_FOUND"}
            /\ last.result.code = "OK"
                 => /\ Keys_version(NsA, NameX, last.result.value.version)
                         \in DOMAIN created
                    /\ last.result.value.content =
                         created[Keys_version(
                                   NsA, NameX,
                                   last.result.value.version)].first.text

\* getSkillLatest returned the latest version's content while another call
\* of publishSkill had stored its content and not yet its metadata
C19_Witness ==
    /\ last.op = "getSkillLatest"
    /\ last.result.code = "OK"
    /\ \E p \in Procs :
         /\ proc[p].op = "publishSkill"
         /\ proc[p].stored
         /\ Keys_version(NsA, NameX, proc[p].version) \in DOMAIN store
         /\ proc[p].version \notin VersionKeySet(store[MetaKey].doc)

\* C20: in every quiescent state reachable by any interleaving of
\* publishSkill and updateProfile calls, the namespaceId stored in a
\* skill's metadata equals the id of the profile currently stored for the
\* skill's namespace.
C20_NamespaceIdIsProfileId ==
    (MetaKey \in DOMAIN store /\ \A p \in Procs : proc[p].pc = "idle")
        => /\ ProfileKey \in DOMAIN store
           /\ store[MetaKey].doc.namespaceId = store[ProfileKey].doc.id

\* the lines of the header block of a text that has one
HeaderLines(head) ==
    Split(Trim(Slice(head, 4, IndexOf(head, FM_ENDMARK, 3))), "\n")

\* the line is not blank and matches neither the top-level nor the nested
\* key: value form
MatchesNeitherForm(line) ==
    /\ \E i \in 1..Len(line) : line[i] \notin SpaceChars
    /\ ~TopLevelMatch(line).matched
    /\ ~NestedMatch(line).matched

\* per content of SpecHeader: its header block has such a line
HasUnmatchedLine ==
    [c \in HeaderContents \cup {"x-one"} |->
       \E i \in 1..Len(HeaderLines(ContentText(c).head)) :
          MatchesNeitherForm(HeaderLines(ContentText(c).head)[i])]

\* C21: every non-blank line of the frontmatter header block that matches
\* neither the top-level key: value form nor the nested, indented,
\* key: value form makes parseFrontmatter fail with INVALID_YAML and
\* publishSkill return INVALID_INPUT, also an indented line that follows a
\* top-level key.
C21_UnmatchedLineIsInvalidYaml ==
    (/\ last.op = "publishSkill"
     /\ last.content \in DOMAIN HasUnmatchedLine
     /\ HasUnmatchedLine[last.content])
      => /\ ContentFrontmatter[last.content].code = "INVALID_YAML"
         /\ last.result.code = "INVALID_INPUT"

\* C22: the frontmatter name validator accepts exactly the strings that
\* skillNameSchema accepts, so that every skill name the route layer
\* accepts can be published with the document makeSkillContent gives for
\* that name.
C22_FrontmatterNameIsSkillName ==
    (/\ last.op = "publishSkill"
     /\ last.content \in {"x-one", "d-one", "dd-one"})
      => /\ frontmatterNameSchema(last.name) = skillNameSchema(last.name)
         /\ skillNameSchema(last.name)
              => last.result.code \in {"OK", "VERSION_ALREADY_EXISTS"}

\* C23: a publishSkill call that returns an error of any kind has written
\* no key: the store is as it was before the call, and no version content
\* is stored for a publish that did not succeed, also when the skill's
\* stored metadata is corrupt.
C23_FailedPublishWritesNothing ==
    (last.op = "publishSkill" /\ last.result.code # "OK")
      => last.wrote = {}

\* C24: for every version string publishSkill is called with, the metadata
\* document a successful publish writes passes skillMetadataSchema when it
\* is read back, so that getSkillMetadata, getSkillLatest and listVersions
\* for the skill do not return CORRUPT_STORAGE_DATA afterwards.
C24_PublishedMetadataIsValid ==
    /\ MetaKey \in DOMAIN store => MetadataState(store[MetaKey]) = "ok"
    /\ last.op \in {"getSkillMetadata", "getSkillLatest", "listVersions"}
         => last.result.code # "CORRUPT_STORAGE_DATA"

\* C25: when a publishSkill call that ran while no other call was in flight
\* has returned VERSION_ALREADY_EXISTS, its version is a key of the versions
\* of the skill's stored metadata: no version is both refused as existing
\* and missing from the skill's version list. (Under SpecRace a call
\* started after the first ones runs alone.)
C25_RefusedVersionIsListed ==
    (/\ started > Cardinality(Procs)
     /\ \A q \in Procs : proc[q].pc = "idle"
     /\ last.op = "publishSkill"
     /\ last.result.code = "VERSION_ALREADY_EXISTS")
      => /\ MetadataState(
               MemoryStorage_get(
                 store, Keys_metadata(last.namespace, last.name))) = "ok"
         /\ last.version
              \in VersionKeySet(
                    store[Keys_metadata(last.namespace, last.name)].doc)

\* C26: across non-overlapping successful publishes to one skill, once
\* metadata.latest is a stable version it never becomes a pre-release again
\* and its (major, minor, patch) never decreases; a publish of a lower
\* stable version or of any pre-release leaves latest unchanged.
C26_StableLatestNeverRecedes ==
    [][(/\ MetaKey \in DOMAIN store
        /\ IsStable(store[MetaKey].doc.latest))
         => /\ MetaKey \in DOMAIN store'
            /\ IsStable(store'[MetaKey].doc.latest)
            /\ ~TripleLess(SemverTriple(store'[MetaKey].doc.latest),
                           SemverTriple(store[MetaKey].doc.latest))
            /\ (/\ Returns("publishSkill")
                /\ \/ ~IsStable(last'.version)
                   \/ TripleLess(SemverTriple(last'.version),
                                 SemverTriple(store[MetaKey].doc.latest)))
                 => store'[MetaKey].doc.latest = store[MetaKey].doc.latest]_vars

\* 2.0.0 was published, the publish of 1.1.0 has returned success after
\* it, and latest is 2.0.0
C26_Witness ==
    /\ last.op = "publishSkill"
    /\ last.result.code = "OK"
    /\ last.version = V110
    /\ V200 \in PublishedVersions(SeqVersions)
    /\ store[MetaKey].doc.latest = V200

\* the read operations of the engine
ReadOps ==
    {"getSkillContent", "getSkillMetadata", "getSkillLatest", "listVersions",
     "listSkillsInNamespace", "listSkills", "getProfile"}

\* C27: the read operations getSkillContent, getSkillMetadata,
\* getSkillLatest, listVersions, listSkillsInNamespace, listSkills and
\* getProfile never write: every step of such a call, from its start to its
\* return, leaves the store as it is, whether the call returns success,
\* NOT_FOUND or CORRUPT_STORAGE_DATA.
C27_ReadsNeverWrite ==
    [][\A p \in Procs :
         (/\ proc'[p] # proc[p]
          /\ proc[p].op \in ReadOps \/ proc'[p].op \in ReadOps)
           => store' = store]_vars

\* getProfile has returned CORRUPT_STORAGE_DATA for a namespace whose
\* profile key holds a value that is no profile document
C27_Witness ==
    /\ last.op = "getProfile"
    /\ last.result.code = "CORRUPT_STORAGE_DATA"
    /\ ProfileState(MemoryStorage_get(store, ProfileKey)) = "corrupt"

\* the keys whose value differs between the two states of a step
ChangedKeys ==
    {k \in DOMAIN store \cup DOMAIN store' :
       MemoryStorage_get(store, k) # MemoryStorage_get(store', k)}

\* the call of p that takes the step
CallOf(p) == IF proc[p].op = "idle" THEN proc'[p] ELSE proc[p]

\* the key, split at its slashes, is the profile key of the namespace of
\* call c, or the metadata key of its skill, or the content key of its
\* version
OwnKey(parts, c) ==
    /\ Len(parts) >= 3
    /\ parts[1] = <<"s", "k", "i", "l", "l", "s">>
    /\ parts[2] = c.namespace
    /\ \/ Len(parts) = 3 /\ parts[3] = Tail(S_user)
       \/ /\ c.op = "publishSkill"
          /\ parts[3] = c.name
          /\ \/ Len(parts) = 4 /\ parts[4] = Tail(S_metadata)
             \/ /\ Len(parts) = 5
                /\ parts[4] = <<"v", "e", "r", "s", "i", "o", "n", "s">>
                /\ parts[5] = c.version \o S_md

\* C28: a publishSkill call for (ns, name, version) changes at most the
\* content key of that triple, the metadata key of (ns, name) and the
\* profile key of ns, and an updateProfile call for ns changes only the
\* profile key of ns: no step of a call changes the metadata or version
\* content of another skill or any key of another namespace.
C28_CallsChangeOwnKeysOnly ==
    [][\A p \in Procs :
         proc'[p] # proc[p]
           => \A k \in ChangedKeys : OwnKey(Split(k, "/"), CallOf(p))]_vars

\* the skill x is published in the namespaces a and ab, the second by the
\* call that returned last, and each namespace has its profile
C28_Witness ==
    /\ last.op = "publishSkill"
    /\ last.result.code = "OK"
    /\ last.namespace = NsAB
    /\ {Keys_metadata(NsA, NameX), Keys_metadata(NsAB, NameX),
        Keys_userProfile(NsA), Keys_userProfile(NsAB)} \subseteq DOMAIN store

\* C29: publishSkill never overwrites a profile written by updateProfile:
\* under any interleaving, when the profile stored for the namespace is the
\* one an updateProfile call has written and returned (the callers' input
\* gives it a bio, which a profile created by a publish lacks), no step of
\* a publishSkill call changes it.
C29_PublishKeepsUpdatedProfile ==
    [][\A p \in Procs :
         (/\ proc[p].op = "publishSkill"
          /\ proc'[p] # proc[p]
          /\ ProfileState(MemoryStorage_get(store, ProfileKey)) = "ok"
          /\ "bio" \in DOMAIN store[ProfileKey].doc)
           => MemoryStorage_get(store', ProfileKey) = store[ProfileKey]]_vars

\* the profile key holds a value that is no profile document
ProfileIsCorrupt(st) == ProfileState(MemoryStorage_get(st, ProfileKey)) = "corrupt"

\* C30: when the value stored at a namespace's profile key is not valid
\* JSON or violates the profile schema, neither updateProfile nor a first
\* publish of a skill in the namespace overwrites it: no step of such a
\* call changes the stored value, and the call that found it returns
\* CORRUPT_STORAGE_DATA, as the read call getProfile does.
C30_CorruptProfileIsKept ==
    [][/\ (ProfileIsCorrupt(store) /\ \E p \in Procs : proc'[p] # proc[p])
          => MemoryStorage_get(store', ProfileKey) = store[ProfileKey]
       /\ (/\ \/ Returns("updateProfile")
              \/ Returns("publishSkill")
              \/ Returns("getProfile")
           /\ ProfileState(last'.rawProfile) = "corrupt")
          => last'.result.code = "CORRUPT_STORAGE_DATA"]_vars

====
